---- MODULE Spec2Model ----
(***************************************************************************)
(* Model of reciprocity_bot: the Player queue state machine                *)
(* (src/src/player.rs) and the companion session of one client connection  *)
(* (src/src/net.rs).                                                       *)
(***************************************************************************)
EXTENDS Integers, Sequences, FiniteSets, Bags, TLC

(***************************************************************************)
(* Bounds of the model.                                                    *)
(***************************************************************************)
\* player.rs:19 sets MUSIC_QUEUE_LIMIT to 100; the model scales the
\* capacity of both ArrayDeques down so that full collections are reached.
MUSIC_QUEUE_LIMIT == 2
\* longest batch handed to enqueue
MaxBatch == 3
\* largest argument of skip and back_skip
MaxSkip == 3
\* the clock (Instant::now) runs from 0 to MaxNow
MaxNow == 1
\* largest position a provider update reports
MaxPos == 1

\* Authenticate requests that succeed on one connection (watchers spawned)
MaxAuths == 2
\* pushers one connection spawns
MaxPushers == 2
\* Control requests one connection receives
MaxControls == 2
\* changes of the user's voice channel membership
MaxMoves == 1
\* snapshots the Players publish while the connection lives
MaxPublishes == 2
\* Players torn down while the connection lives
MaxLeaves == 1
\* malformed frames, failing Authenticate requests and AuthStatus requests
\* one connection receives
MaxRequests == 2
\* sync_respond calls made on one connection
MaxSenders == 3

\* Option<T>: None is the empty sequence, Some(x) the sequence holding x
None == <<>>
Some(x) == <<x>>
Tracks == {"A", "B"}
\* enum Playback (player.rs:405-410)
Playbacks == {"Normal", "AllLoop", "OneLoop"}

\* sequences over S of length at most n
RECURSIVE SeqUpTo(_, _)
SeqUpTo(S, n) ==
    IF n = 0 THEN {<<>>}
    ELSE LET shorter == SeqUpTo(S, n - 1)
         IN shorter \cup {Append(s, x) : s \in {t \in shorter : Len(t) = n - 1}, x \in S}

Batches == SeqUpTo(Tracks, MaxBatch)

VARIABLES
    player_state,   \* Player.player_state: current, playlist, history, play_state, playback
    published,      \* the value held by the watch channel Player.send / Player.receive
    now,            \* Instant::now()
    lastCmd,        \* the Player command that has just run, with its arguments ("idle": none)
    result,         \* what that command returns
    pubs,           \* how many snapshots that command sent
    calls,          \* the provider (lavalink) calls that command made, in order
    panicked,       \* an expect() of a push helper failed
    provider,       \* what the provider (lavalink) does for the guild: nothing yet,
                    \* playing a track, or stopped ("unobserved": not followed)
    rx,             \* the receive loop of the connection (ClientConnection::receive_run)
    user,           \* ClientConnection.user
    voice_state,    \* ClientConnection.voice_state
    vss,            \* ClientConnection.voice_state_sender: the watcher's JoinHandle
    pss,            \* ClientConnection.player_state_sender: the pusher's JoinHandle
    pssLock,        \* the task holding the Mutex of player_state_sender
    watchers,       \* the voice_state_sender_run tasks spawned so far
    pushers,        \* the player_state_sender_run tasks spawned so far
    controls,       \* the tasks spawned by handle_control_req
    responders,     \* the tasks spawned by respond / send_voice_state that have not written yet
    membership,     \* what bots.get_any_user_voice_channel returns for the user
    chan,           \* per channel: the Player's watch channel, if a Player exists
    env,            \* how many moves, publishes and leaves the environment has made,
                    \* the requests the receive loop answered and the replies written
    lim,            \* how many tasks and environment events the checked behaviours hold
    write,          \* ClientConnection.write: the task holding the Mutex of the socket's sink
    senders,        \* the sync_respond calls in flight, whoever made them
    wire            \* what has been written to the socket, in order

playerVars == <<player_state, published, lastCmd, result, pubs, calls, panicked, provider>>

sessionVars == <<rx, user, voice_state, vss, pss, pssLock, watchers, pushers, controls,
                 responders, membership, chan, env, lim, write, senders, wire>>

vars == <<player_state, published, now, lastCmd, result, pubs, calls, panicked, provider,
          rx, user, voice_state, vss, pss, pssLock, watchers, pushers, controls,
          responders, membership, chan, env, lim, write, senders, wire>>

(***************************************************************************)
(* ArrayDeque<[Track; MUSIC_QUEUE_LIMIT]> with the default (saturating)    *)
(* behaviour: a push onto a full deque fails and changes nothing.          *)
(***************************************************************************)
is_full(q) == Len(q) >= MUSIC_QUEUE_LIMIT

push_back(q, t) ==
    IF is_full(q) THEN [ok |-> FALSE, q |-> q] ELSE [ok |-> TRUE, q |-> Append(q, t)]

push_front(q, t) ==
    IF is_full(q) THEN [ok |-> FALSE, q |-> q] ELSE [ok |-> TRUE, q |-> <<t>> \o q]

pop_back(q) ==
    IF q = <<>> THEN [ok |-> FALSE, q |-> q] ELSE [ok |-> TRUE, q |-> SubSeq(q, 1, Len(q) - 1)]

(***************************************************************************)
(* A command runs on a machine m: the player state it works on, the        *)
(* snapshots it has sent, the provider calls it has made, whether an       *)
(* expect() panicked and the value it returns.                             *)
(***************************************************************************)
PlayerState_new ==
    [current |-> None, playlist |-> <<>>, history |-> <<>>,
     play_state |-> "Play", playback |-> "Normal"]

Start(ps) == [ps |-> ps, sent |-> <<>>, calls |-> <<>>, panic |-> FALSE, res |-> "Ok"]

\* self.send.send(Arc::new(self.player_state.clone())).ok()
Send(m) == [m EXCEPT !.sent = Append(@, m.ps)]

\* a provider call, which succeeds (ok) or fails with a LavalinkError
Lavalink(m, call, ok) ==
    [m EXCEPT !.calls = Append(@, call), !.res = IF ok THEN "Ok" ELSE "Lavalink"]

\* mutant: the is_full check and pop_back are missing
push_to_history_front_NoEvict(m, track) ==
    LET pushed == push_front(m.ps.history, track)
    IN  [m EXCEPT !.ps.history = pushed.q, !.panic = @ \/ ~pushed.ok]

push_to_history_front(m, track) ==
    LET popped == IF is_full(m.ps.history) THEN pop_back(m.ps.history)
                  ELSE [ok |-> TRUE, q |-> m.ps.history]
        pushed == push_front(popped.q, track)
    IN  IF ~popped.ok THEN [m EXCEPT !.panic = TRUE]
        ELSE [m EXCEPT !.ps.history = pushed.q, !.panic = @ \/ ~pushed.ok]

\* a push_to_playlist_back that puts the track at the front
push_to_playlist_back_AtFront(m, track) ==
    LET popped == IF is_full(m.ps.playlist) THEN pop_back(m.ps.playlist)
                  ELSE [ok |-> TRUE, q |-> m.ps.playlist]
        pushed == push_front(popped.q, track)
    IN  IF ~popped.ok THEN [m EXCEPT !.panic = TRUE]
        ELSE [m EXCEPT !.ps.playlist = pushed.q, !.panic = @ \/ ~pushed.ok]

push_to_playlist_back(m, track) ==
    LET popped == IF is_full(m.ps.playlist) THEN pop_back(m.ps.playlist)
                  ELSE [ok |-> TRUE, q |-> m.ps.playlist]
        pushed == push_back(popped.q, track)
    IN  IF ~popped.ok THEN [m EXCEPT !.panic = TRUE]
        ELSE [m EXCEPT !.ps.playlist = pushed.q, !.panic = @ \/ ~pushed.ok]

\* a push_to_playlist_front that puts the track at the back
push_to_playlist_front_AtBack(m, track) == push_to_playlist_back(m, track)

push_to_playlist_front(m, track) ==
    LET popped == IF is_full(m.ps.playlist) THEN pop_back(m.ps.playlist)
                  ELSE [ok |-> TRUE, q |-> m.ps.playlist]
        pushed == push_front(popped.q, track)
    IN  IF ~popped.ok THEN [m EXCEPT !.panic = TRUE]
        ELSE [m EXCEPT !.ps.playlist = pushed.q, !.panic = @ \/ ~pushed.ok]

\* mutant: the skipped track goes to the back of the Playlist in every mode
skip_move_ToPlaylist(m, track) == push_to_playlist_back(m, track)

\* the match on playback in skip: where a skipped track goes
skip_move(m, track) ==
    IF m.ps.playback = "AllLoop" THEN push_to_playlist_back(m, track)
    ELSE push_to_history_front(m, track)

(***************************************************************************)
(* play_next (player.rs:306-360)                                           *)
(***************************************************************************)
play_next(m0, t, ok) ==
    LET cur == m0.ps.current
        \* the match on playback: move or reset Current
        m1 == CASE m0.ps.playback = "Normal" ->
                     IF cur # None
                     THEN [c |-> TRUE,
                           m |-> push_to_history_front([m0 EXCEPT !.ps.current = None], cur[1].track)]
                     ELSE [c |-> FALSE, m |-> m0]
                [] m0.ps.playback = "AllLoop" ->
                     IF cur # None
                     THEN [c |-> TRUE,
                           m |-> push_to_playlist_back([m0 EXCEPT !.ps.current = None], cur[1].track)]
                     ELSE [c |-> FALSE, m |-> m0]
                [] OTHER ->
                     IF cur # None
                     THEN [c |-> FALSE,
                           m |-> [m0 EXCEPT !.ps.current = Some([pos |-> 0, when |-> t, track |-> cur[1].track])]]
                     ELSE [c |-> FALSE, m |-> m0]
        \* if current is None: pull a new one from the playlist
        m2 == IF m1.m.ps.current = None /\ m1.m.ps.playlist # <<>>
              THEN [c |-> TRUE,
                    m |-> [m1.m EXCEPT !.ps.current = Some([pos |-> 0, when |-> t,
                                                            track |-> Head(m1.m.ps.playlist)]),
                                       !.ps.playlist = Tail(@),
                                       !.ps.play_state = "Play"]]
              ELSE m1
        m3 == IF m2.c THEN Send(m2.m) ELSE m2.m
    IN  IF m1.m.panic THEN m1.m
        ELSE IF m3.ps.current = None THEN Lavalink(m3, [op |-> "stop"], ok)
        ELSE Lavalink(m3, [op |-> "play", track |-> m3.ps.current[1].track], ok)

(***************************************************************************)
(* enqueue (player.rs:223-240)                                             *)
(***************************************************************************)
RECURSIVE enqueue_loop_AnyOverflow(_, _, _)
\* mutant: every failed push_back is reported, not only the first
enqueue_loop_AnyOverflow(m, tracks, i) ==
    IF i > Len(tracks) THEN m
    ELSE LET res == push_back(m.ps.playlist, tracks[i])
         IN  IF ~res.ok THEN [m EXCEPT !.res = "PlaylistFull"]
             ELSE enqueue_loop_AnyOverflow([m EXCEPT !.ps.playlist = res.q], tracks, i + 1)

RECURSIVE enqueue_loop(_, _, _)
\* the for loop over tracks.enumerate(): i is the index of the next track
enqueue_loop(m, tracks, i) ==
    IF i > Len(tracks) THEN m
    ELSE LET res == push_back(m.ps.playlist, tracks[i])
         IN  IF i = 1 /\ ~res.ok THEN [m EXCEPT !.res = "PlaylistFull"]
             ELSE enqueue_loop([m EXCEPT !.ps.playlist = res.q], tracks, i + 1)

\* mutant: the snapshot is sent also after play_next
enqueue_SendTwice(m0, tracks, t, ok) ==
    LET m1 == enqueue_loop(m0, tracks, 1)
    IN  IF m1.res = "PlaylistFull" THEN m1
        ELSE IF m1.ps.current = None THEN Send(play_next(m1, t, ok))
        ELSE Send(m1)

enqueue(m0, tracks, t, ok) ==
    LET m1 == enqueue_loop(m0, tracks, 1)
    IN  IF m1.res = "PlaylistFull" THEN m1
        ELSE IF m1.ps.current = None THEN play_next(m1, t, ok)
        ELSE Send(m1)

(***************************************************************************)
(* resume, pause, dynamic_pause_resume (player.rs:83-110)                  *)
(***************************************************************************)
\* a resume that sends the snapshot only when the play state changes
resume_OnlyOnChange(m0, ok) ==
    LET m1 == Lavalink(m0, [op |-> "resume"], ok)
    IN  IF ~ok \/ m0.ps.play_state = "Play" THEN m1
        ELSE Send([m1 EXCEPT !.ps.play_state = "Play"])

resume(m0, ok) ==
    LET m1 == Lavalink(m0, [op |-> "resume"], ok)
    IN  IF ~ok THEN m1 ELSE Send([m1 EXCEPT !.ps.play_state = "Play"])

pause(m0, ok) ==
    LET m1 == Lavalink(m0, [op |-> "pause"], ok)
    IN  IF ~ok THEN m1 ELSE Send([m1 EXCEPT !.ps.play_state = "Pause"])

\* a dynamic_pause_resume that pauses whatever the play state is
dynamic_pause_resume_Pauses(m0, ok) == pause(m0, ok)

dynamic_pause_resume(m0, ok) ==
    IF m0.ps.play_state = "Play" THEN pause(m0, ok) ELSE resume(m0, ok)

(***************************************************************************)
(* skip (player.rs:112-148)                                                *)
(***************************************************************************)
RECURSIVE skip_loop_KeepsHead(_, _)
\* a loop that moves the head of the Playlist without taking it out
skip_loop_KeepsHead(m, k) ==
    IF k = 0 \/ m.panic \/ m.ps.playlist = <<>> THEN m
    ELSE skip_loop_KeepsHead(skip_move(m, Head(m.ps.playlist)), k - 1)

RECURSIVE skip_loop(_, _)
\* for _i in 0..i - 1: k iterations are left
skip_loop(m, k) ==
    IF k = 0 \/ m.panic \/ m.ps.playlist = <<>> THEN m
    ELSE skip_loop(skip_move([m EXCEPT !.ps.playlist = Tail(@)], Head(m.ps.playlist)), k - 1)

\* a skip that stops the provider only when it took a Current
skip_StopsCurrentOnly(m0, i, ok) ==
    IF i = 0 THEN m0
    ELSE LET cur == m0.ps.current
             changed == cur # None
             m1 == IF cur # None
                   THEN skip_move([m0 EXCEPT !.ps.current = None], cur[1].track)
                   ELSE m0
             m2 == skip_loop(m1, i - 1)
             m3 == IF changed THEN Send(m2) ELSE m2
         IN  IF m2.panic THEN m2
             ELSE IF changed THEN Lavalink(m3, [op |-> "stop"], ok)
             ELSE m3

skip(m0, i, ok) ==
    IF i = 0 THEN m0
    ELSE LET cur == m0.ps.current
             changed == cur # None
             m1 == IF cur # None
                   THEN skip_move([m0 EXCEPT !.ps.current = None], cur[1].track)
                   ELSE m0
             m2 == skip_loop(m1, i - 1)
             m3 == IF changed THEN Send(m2) ELSE m2
         IN  IF m2.panic THEN m2 ELSE Lavalink(m3, [op |-> "stop"], ok)

(***************************************************************************)
(* back_skip (player.rs:150-182)                                           *)
(***************************************************************************)
RECURSIVE back_skip_loop_KeepsHistory(_, _)
\* a loop that puts the head of the History in the Playlist and leaves it in
\* the History
back_skip_loop_KeepsHistory(mc, k) ==
    IF k = 0 \/ mc.m.panic \/ mc.m.ps.history = <<>> THEN mc
    ELSE back_skip_loop_KeepsHistory(
            [c |-> TRUE, m |-> push_to_playlist_front(mc.m, Head(mc.m.ps.history))],
            k - 1)

RECURSIVE back_skip_loop(_, _)
\* for _i in 0..i: k iterations are left; c is the changed flag
back_skip_loop(mc, k) ==
    IF k = 0 \/ mc.m.panic \/ mc.m.ps.history = <<>> THEN mc
    ELSE back_skip_loop(
            [c |-> TRUE,
             m |-> push_to_playlist_front([mc.m EXCEPT !.ps.history = Tail(@)],
                                          Head(mc.m.ps.history))],
            k - 1)

\* mutant: the check of i == 0 is missing
back_skip_NoZeroCheck(m0, i, t, ok) ==
    LET cur == m0.ps.current
        current_was_some == cur # None
        m1 == IF cur # None
              THEN push_to_playlist_front([m0 EXCEPT !.ps.current = None], cur[1].track)
              ELSE m0
        m2 == back_skip_loop([c |-> current_was_some, m |-> m1], i)
        m3 == IF m2.c THEN Send(m2.m) ELSE m2.m
    IN  IF m2.m.panic THEN m2.m
        ELSE IF current_was_some THEN Lavalink(m3, [op |-> "stop"], ok)
        ELSE play_next(m3, t, ok)

back_skip(m0, i, t, ok) ==
    IF i = 0 THEN m0
    ELSE LET cur == m0.ps.current
             current_was_some == cur # None
             m1 == IF cur # None
                   THEN push_to_playlist_front([m0 EXCEPT !.ps.current = None], cur[1].track)
                   ELSE m0
             m2 == back_skip_loop([c |-> current_was_some, m |-> m1], i)
             m3 == IF m2.c THEN Send(m2.m) ELSE m2.m
         IN  IF m2.m.panic THEN m2.m
             ELSE IF current_was_some THEN Lavalink(m3, [op |-> "stop"], ok)
             ELSE play_next(m3, t, ok)

(***************************************************************************)
(* jump, clear_queue, playback, update (player.rs:242-268, 362-370)        *)
(***************************************************************************)
\* a jump that seeks without looking at Current
jump_NoCheck(m0, pos, ok) == Lavalink(m0, [op |-> "jump_to_time", pos |-> pos], ok)

jump(m0, pos, ok) ==
    IF m0.ps.current # None THEN Lavalink(m0, [op |-> "jump_to_time", pos |-> pos], ok)
    ELSE [m0 EXCEPT !.res = "NoCurrentSong"]

\* a clear_queue that sends the snapshot also for an empty Playlist
clear_queue_AlwaysSends(m0) == Send([m0 EXCEPT !.ps.playlist = <<>>])

clear_queue(m0) ==
    IF m0.ps.playlist # <<>> THEN Send([m0 EXCEPT !.ps.playlist = <<>>]) ELSE m0

\* mutant: the mode is set also when it is the mode already
playback_Sticky(m0, mode) == Send([m0 EXCEPT !.ps.playback = mode])

playback(m0, mode) ==
    Send([m0 EXCEPT !.ps.playback = IF @ # mode THEN mode ELSE "Normal"])

\* an update that sends the snapshot only when the pair changes
update_OnlyOnChange(m0, new_pos, t) ==
    LET cur == Some([pos |-> new_pos, when |-> t, track |-> m0.ps.current[1].track])
    IN  IF m0.ps.current # None /\ m0.ps.current # cur
        THEN Send([m0 EXCEPT !.ps.current = cur])
        ELSE m0

update(m0, new_pos, t) ==
    IF m0.ps.current # None
    THEN Send([m0 EXCEPT !.ps.current = Some([pos |-> new_pos, when |-> t,
                                              track |-> m0.ps.current[1].track])])
    ELSE m0

(***************************************************************************)
(* The effect of a command on the variables. Player commands take &mut     *)
(* self: one runs at a time, the next one after its caller has the result. *)
(***************************************************************************)
Idle == [op |-> "idle"]

\* the provider after the calls of a command: a play or stop call that it
\* accepted starts resp. ends the playback; a track that ended plays no more
Provider(before, m) ==
    IF before = "unobserved" \/ m.calls = <<>> \/ m.res = "Lavalink" THEN before
    ELSE LET call == m.calls[Len(m.calls)]
         IN  CASE call.op = "play" -> "playing"
               [] call.op = "stop" -> "stopped"
               [] OTHER -> before

Returns(cmd, m) ==
    /\ lastCmd = Idle
    /\ provider' = Provider(IF cmd.op = "track_end" /\ provider # "unobserved"
                            THEN "stopped" ELSE provider, m)
    /\ player_state' = m.ps
    /\ published' = IF m.sent = <<>> THEN published ELSE m.sent[Len(m.sent)]
    /\ lastCmd' = cmd
    /\ result' = m.res
    /\ pubs' = Len(m.sent)
    /\ calls' = m.calls
    /\ panicked' = (panicked \/ m.panic)
    /\ UNCHANGED now
    /\ UNCHANGED sessionVars

Enqueue ==
    \E tracks \in Batches, ok \in BOOLEAN :
        Returns([op |-> "enqueue", tracks |-> tracks],
                enqueue(Start(player_state), tracks, now, ok))

TrackEnd ==
    \E ok \in BOOLEAN :
        Returns([op |-> "track_end"], play_next(Start(player_state), now, ok))

Resume ==
    \E ok \in BOOLEAN : Returns([op |-> "resume"], resume(Start(player_state), ok))

Pause ==
    \E ok \in BOOLEAN : Returns([op |-> "pause"], pause(Start(player_state), ok))

DynamicPauseResume ==
    \E ok \in BOOLEAN :
        Returns([op |-> "dynamic_pause_resume"], dynamic_pause_resume(Start(player_state), ok))

Skip ==
    \E i \in 0..MaxSkip, ok \in BOOLEAN :
        Returns([op |-> "skip", i |-> i], skip(Start(player_state), i, ok))

BackSkip ==
    \E i \in 0..MaxSkip, ok \in BOOLEAN :
        Returns([op |-> "back_skip", i |-> i], back_skip(Start(player_state), i, now, ok))

Jump ==
    \E pos \in 0..MaxPos, ok \in BOOLEAN :
        Returns([op |-> "jump", pos |-> pos], jump(Start(player_state), pos, ok))

ClearQueue ==
    Returns([op |-> "clear_queue"], clear_queue(Start(player_state)))

SetPlayback ==
    \E mode \in Playbacks :
        Returns([op |-> "playback", mode |-> mode], playback(Start(player_state), mode))

\* the same playback request once more, before any other command
SetPlaybackAgain ==
    /\ lastCmd.op = "playback"
    /\ LET m == playback(Start(player_state), lastCmd.mode)
       IN  /\ player_state' = m.ps
           /\ published' = m.sent[Len(m.sent)]
           /\ lastCmd' = [op |-> "playback_again", mode |-> lastCmd.mode]
           /\ result' = m.res
           /\ pubs' = Len(m.sent)
           /\ calls' = m.calls
           /\ panicked' = (panicked \/ m.panic)
    /\ UNCHANGED <<now, provider>>
    /\ UNCHANGED sessionVars

Update ==
    \E new_pos \in 0..MaxPos :
        Returns([op |-> "update", pos |-> new_pos], update(Start(player_state), new_pos, now))

\* the caller has the command's result
Return ==
    /\ lastCmd # Idle
    /\ lastCmd' = Idle
    /\ result' = "Ok"
    /\ pubs' = 0
    /\ calls' = <<>>
    /\ UNCHANGED <<player_state, published, now, panicked, provider>>
    /\ UNCHANGED sessionVars

\* time passes between two commands
Tick ==
    /\ lastCmd = Idle
    /\ now < MaxNow
    /\ now' = now + 1
    /\ UNCHANGED <<player_state, published, lastCmd, result, pubs, calls, panicked, provider>>
    /\ UNCHANGED sessionVars

(***************************************************************************)
(* The companion session of one connection (net.rs).                       *)
(***************************************************************************)
\* routing targets (GuildId, ChannelId): X and Y lie in guilds that have a
\* PlayerManager, U in a guild that com.players does not map
Targets == {"X", "Y", "U"}
Managed == {"X", "Y"}

\* a track whose info is None: parse_track drops it
NoInfoTrack == "N"

\* PlayerControl variants a client sends, and the uuids it tags them with
\* the Control requests a client sends
Requests == {[uuid |-> "u1", cmd |-> "Resume"], [uuid |-> "u2", cmd |-> "Skip"]}

\* parse_track (net.rs:620-629)
parse_track(t) ==
    IF t = NoInfoTrack THEN None ELSE Some([title |-> t, pos |-> 0])

\* parse_cur_track (net.rs:631-640): pos + when.elapsed()
parse_cur_track(pos, when, t, at) ==
    IF t = NoInfoTrack THEN None ELSE Some([title |-> t, pos |-> pos + (at - when)])

RECURSIVE Flatten(_)
\* .map(parse_track).flatten().collect()
Flatten(ts) ==
    IF ts = <<>> THEN <<>> ELSE parse_track(Head(ts)) \o Flatten(Tail(ts))

\* impl From<Playback> for PlayMode (net.rs:650-658)
PlayMode(pb) ==
    CASE pb = "Normal" -> "Normal" [] pb = "AllLoop" -> "LoopAll" [] OTHER -> "LoopOne"

\* gen_player_state (net.rs:587-618), evaluated at instant at
gen_player_state(ps, at) ==
    [bot |-> "bot",
     paused |-> (ps.play_state = "Pause"),
     mode |-> PlayMode(ps.playback),
     current |-> IF ps.current = None THEN None
                 ELSE parse_cur_track(ps.current[1].pos, ps.current[1].when,
                                      ps.current[1].track, at),
     history |-> Flatten(ps.history),
     queue |-> Flatten(ps.playlist)]

\* Message::generate_patch: the fields of the new state that differ
generate_patch(old, new) ==
    [f \in {g \in DOMAIN new : old[g] # new[g]} |-> new[f]]

\* the client's side of a Patch frame: the patched fields replace the old ones
apply_patch(patch, old) ==
    [f \in DOMAIN old |-> IF f \in DOMAIN patch THEN patch[f] ELSE old[f]]

EmptyPatch == [f \in {} |-> None]

\* the snapshots a Player publishes while the session is watched
Snapshots ==
    {PlayerState_new,
     [PlayerState_new EXCEPT !.playlist = <<NoInfoTrack>>],
     [PlayerState_new EXCEPT !.playlist = <<"A">>],
     [PlayerState_new EXCEPT !.current = Some([pos |-> 0, when |-> now, track |-> "A"])]}

NoSession ==
    [auths |-> 0, pushers |-> 0, controls |-> 0, moves |-> 0, publishes |-> 0, leaves |-> 0,
     requests |-> 0]

NoChannel == [up |-> FALSE, val |-> PlayerState_new, dirty |-> FALSE]

\* a task that was never spawned or has ended
DeadWatcher == [pc |-> "dead", cancelled |-> FALSE, last_check |-> None, new |-> None]

NewWatcher == [pc |-> "start", cancelled |-> FALSE, last_check |-> None, new |-> None]

DeadPusher ==
    [pc |-> "dead", cancelled |-> FALSE, target |-> "X", sub |-> FALSE, unseen |-> FALSE,
     closed |-> FALSE, cell |-> PlayerState_new, last_state |-> None,
     patch |-> EmptyPatch, view |-> None,
     stream |-> <<>>, notes |-> 0, notesAtFirst |-> 0 - 1]

NewPusher(t) == [DeadPusher EXCEPT !.pc = "start", !.target = t]

SessionIdle ==
    /\ rx = "done"
    /\ user = None
    /\ voice_state = None
    /\ vss = None
    /\ pss = None
    /\ pssLock = None
    /\ watchers = <<>>
    /\ pushers = <<>>
    /\ controls = <<>>
    /\ responders = {}
    /\ membership = None
    /\ chan = [t \in Managed |-> NoChannel]
    /\ env = [moves |-> 0, publishes |-> 0, leaves |-> 0, handled |-> <<>>, replies |-> <<>>]
    /\ lim = NoSession
    /\ write = None
    /\ senders = <<>>
    /\ wire = <<>>

PlayerNew ==
    /\ player_state = PlayerState_new
    /\ published = PlayerState_new
    /\ now = 0
    /\ lastCmd = Idle
    /\ result = "Ok"
    /\ pubs = 0
    /\ calls = <<>>
    /\ panicked = FALSE

PlayerInit == PlayerNew /\ provider = "unobserved"

Init == PlayerInit /\ SessionIdle

PlayerNext ==
    \/ Enqueue
    \/ TrackEnd
    \/ Resume
    \/ Pause
    \/ DynamicPauseResume
    \/ Skip
    \/ BackSkip
    \/ Jump
    \/ ClearQueue
    \/ SetPlayback
    \/ SetPlaybackAgain
    \/ Update
    \/ Return
    \/ Tick

Next == PlayerNext

Spec == Init /\ [][Next]_vars

(***************************************************************************)
(* ProviderSpec: the Player commands, with the provider followed through   *)
(* the play and stop calls it accepts.                                     *)
(***************************************************************************)
ProviderInit == PlayerNew /\ provider = "idle" /\ SessionIdle

ProviderSpec == ProviderInit /\ [][PlayerNext]_vars

(***************************************************************************)
(* QueueSpec: the commands that put tracks at the back of the Playlist and *)
(* at the front of the History only. Without back_skip the Playlist is in  *)
(* the order its tracks were put in: its head is the oldest item, as the   *)
(* last item of the History is.                                            *)
(***************************************************************************)
QueueNext ==
    \/ Enqueue
    \/ TrackEnd
    \/ Skip
    \/ SetPlayback
    \/ Return
    \/ Tick

QueueSpec == Init /\ [][QueueNext]_vars

(***************************************************************************)
(* RoundTripSpec: the commands of QueueSpec, and a caller that sends       *)
(* skip(1), track_end, back_skip(1), track_end one after the other with no *)
(* other command between them. lastCmd carries the step of the sequence    *)
(* and the Player state the sequence started from.                         *)
(***************************************************************************)
\* the command of each step of the sequence (player.rs:112, 372, 150, 372)
SequenceCommand(ps, step, t, ok) ==
    CASE step = 1 -> skip(Start(ps), 1, ok)
      [] step = 2 -> play_next(Start(ps), t, ok)
      [] step = 3 -> back_skip(Start(ps), 1, t, ok)
      [] OTHER    -> play_next(Start(ps), t, ok)

\* the variables after the command of a step has returned
SequenceReturns(cmd, m) ==
    /\ player_state' = m.ps
    /\ published' = IF m.sent = <<>> THEN published ELSE m.sent[Len(m.sent)]
    /\ lastCmd' = cmd
    /\ result' = m.res
    /\ pubs' = Len(m.sent)
    /\ calls' = m.calls
    /\ panicked' = (panicked \/ m.panic)
    /\ UNCHANGED <<now, provider>>
    /\ UNCHANGED sessionVars

SequenceStart ==
    /\ lastCmd = Idle
    /\ \E ok \in BOOLEAN :
          SequenceReturns([op |-> "sequence", step |-> 1, before |-> player_state],
                          SequenceCommand(player_state, 1, now, ok))

SequenceStep ==
    /\ lastCmd.op = "sequence"
    /\ lastCmd.step < 4
    /\ \E ok \in BOOLEAN :
          SequenceReturns([lastCmd EXCEPT !.step = @ + 1],
                          SequenceCommand(player_state, lastCmd.step + 1, now, ok))

RoundTripNext ==
    \/ Enqueue
    \/ TrackEnd
    \/ Skip
    \/ SetPlayback
    \/ Return
    \/ Tick
    \/ SequenceStart
    \/ SequenceStep

RoundTripSpec == Init /\ [][RoundTripNext]_vars

(***************************************************************************)
(* Tasks and their cancellation. JoinHandle::abort only marks the task: a  *)
(* task that is suspended is dropped without running again; one that is    *)
(* running on another worker goes on to its next await that is not ready.  *)
(***************************************************************************)
Live(task) == task.pc # "dead" /\ ~task.cancelled

\* vss.abort() for the handle taken out of voice_state_sender: a watcher that
\* has not run yet or is in its sleep is dropped there
AbortWatcher(h) ==
    IF h = None \/ watchers[h[1]].pc = "dead" THEN watchers
    ELSE IF watchers[h[1]].pc \in {"start", "sleep"}
    THEN [watchers EXCEPT ![h[1]] = DeadWatcher]
    ELSE [watchers EXCEPT ![h[1]].cancelled = TRUE]

\* a pusher that has not run yet, waits for a change or sleeps until a Player
\* exists
Parked(p) ==
    \/ p.pc = "start"
    \/ p.pc = "changed" /\ ~p.unseen /\ ~p.closed
    \/ p.pc = "wait_player" /\ ~chan[p.target].up

\* mutant: the handle is taken out of the slot and forgotten
AbortPusher_Forget(h) == pushers

\* pss.abort() for the handle taken out of player_state_sender
AbortPusher(h) ==
    IF h = None \/ pushers[h[1]].pc = "dead" THEN pushers
    ELSE IF Parked(pushers[h[1]]) THEN [pushers EXCEPT ![h[1]] = DeadPusher]
    ELSE [pushers EXCEPT ![h[1]].cancelled = TRUE]

\* tokio::spawn(self.clone().sync_respond(msg)): a task that writes one frame;
\* equal frames that wait at the same time are kept once
Respond(frame) == responders \cup {frame}

VoiceNone == [kind |-> "UserVoiceState", vs |-> None, for |-> 0]

\* the frames a pusher hands to sync_respond, as the client sees them
PusherWrote(p, kind) ==
    [p EXCEPT !.stream = IF p.sub THEN Append(@, kind) ELSE @,
              !.notesAtFirst = IF @ < 0 THEN p.notes ELSE @]

(***************************************************************************)
(* voice_state_sender_run (net.rs:361-424): the watcher                    *)
(***************************************************************************)
\* 372-378: make sure the player sender is cleared
W_Start(w) ==
    /\ watchers[w].pc = "start"
    /\ pssLock = None
    /\ pushers' = AbortPusher(pss)
    /\ pss' = None
    /\ watchers' = [watchers EXCEPT ![w].pc = "poll"]
    /\ UNCHANGED <<rx, user, voice_state, vss, pssLock, controls, responders, membership,
                   chan, env, lim, write, senders, wire,
                   playerVars, now>>

\* 384-388: read the membership; nothing changed: sleep
W_Poll(w) ==
    /\ watchers[w].pc = "poll"
    /\ IF membership = watchers[w].last_check
       THEN watchers' = [watchers EXCEPT ![w].pc = "sleep"]
       ELSE /\ membership # None => Len(pushers) < lim.pushers
            /\ watchers' = [watchers EXCEPT ![w].pc = "lock", ![w].new = membership]
    /\ UNCHANGED <<rx, user, voice_state, vss, pss, pssLock, pushers, controls, responders,
                   membership, chan, env, lim, write, senders, wire,
                   playerVars, now>>

\* tokio::time::sleep(1s) is over
W_Wake(w) ==
    /\ watchers[w].pc = "sleep"
    /\ ~watchers[w].cancelled
    /\ watchers' = [watchers EXCEPT ![w].pc = "poll"]
    /\ UNCHANGED <<rx, user, voice_state, vss, pss, pssLock, pushers, controls, responders,
                   membership, chan, env, lim, write, senders, wire,
                   playerVars, now>>

\* 391-395: lock the pusher slot, take and abort the running pusher
W_Lock(w) ==
    /\ watchers[w].pc = "lock"
    /\ pssLock = None
    /\ pssLock' = Some(w)
    /\ pushers' = AbortPusher(pss)
    /\ pss' = None
    /\ watchers' = [watchers EXCEPT ![w].pc = "write_vs"]
    /\ UNCHANGED <<rx, user, voice_state, vss, controls, responders, membership, chan, env, lim, write, senders, wire,
                   playerVars, now>>

\* 398-422: record the membership, notify the client, spawn the new pusher
W_Write(w) ==
    /\ watchers[w].pc = "write_vs"
    /\ LET new == watchers[w].new
           id == Len(pushers) + 1
       IN  /\ watchers' = [watchers EXCEPT ![w].pc = "sleep", ![w].last_check = new]
           /\ voice_state' = new
           /\ IF new = None
              THEN /\ responders' = Respond(VoiceNone)
                   /\ UNCHANGED <<pushers, pss>>
              ELSE /\ responders' = Respond([kind |-> "UserVoiceState", vs |-> new, for |-> id])
                   /\ pushers' = Append(pushers, NewPusher(new[1]))
                   /\ pss' = Some(id)
    /\ pssLock' = None
    /\ UNCHANGED <<rx, user, vss, controls, membership, chan, env, lim, write, senders, wire,
                   playerVars, now>>

\* a drop of the aborted watcher that leaves its MutexGuard behind
W_Reap_KeepsGuard(w) ==
    /\ watchers[w].pc # "dead"
    /\ watchers[w].cancelled
    /\ watchers' = [watchers EXCEPT ![w] = DeadWatcher]
    /\ UNCHANGED <<rx, user, voice_state, vss, pss, pssLock, pushers, controls, responders,
                   membership, chan, env, lim, write, senders, wire,
                   playerVars, now>>

\* the aborted watcher is dropped at an await; its MutexGuard is released
W_Reap(w) ==
    /\ watchers[w].pc # "dead"
    /\ watchers[w].cancelled
    /\ watchers' = [watchers EXCEPT ![w] = DeadWatcher]
    /\ pssLock' = IF pssLock = Some(w) THEN None ELSE pssLock
    /\ UNCHANGED <<rx, user, voice_state, vss, pss, pushers, controls, responders,
                   membership, chan, env, lim, write, senders, wire,
                   playerVars, now>>

(***************************************************************************)
(* player_state_sender_run (net.rs:476-584): the pusher                    *)
(***************************************************************************)
PusherStep(p, next) ==
    /\ pushers' = [pushers EXCEPT ![p] = next]
    /\ UNCHANGED <<rx, user, voice_state, vss, pss, pssLock, watchers, controls, responders,
                   membership, chan, env, lim, write, senders, wire,
                   playerVars, now>>

\* 479-494: no PlayerManager: return; no Player yet:
\* sync_respond(Message::PlayerState(None))
P_Start(p) ==
    /\ pushers[p].pc = "start"
    /\ PusherStep(p,
          IF pushers[p].target \notin Managed THEN DeadPusher
          ELSE IF ~chan[pushers[p].target].up
          THEN [PusherWrote(pushers[p], "None") EXCEPT !.pc = "wait_player"]
          ELSE [pushers[p] EXCEPT !.pc = "wait_player"])

\* 499-543: a Player exists: subscribe to its watch, build the first state,
\* sync_respond(FullState(last_state))
P_GetPlayer(p) ==
    /\ pushers[p].pc = "wait_player"
    /\ chan[pushers[p].target].up
    /\ LET c == chan[pushers[p].target]
           first == Some(gen_player_state(c.val, now))
           subscribed == [pushers[p] EXCEPT !.sub = TRUE, !.unseen = c.dirty,
                                            !.closed = FALSE, !.cell = c.val,
                                            !.stream = <<>>]
       IN  PusherStep(p, [PusherWrote(subscribed, "Full") EXCEPT
                              !.pc = "changed", !.last_state = first, !.view = first])

\* mutant: the new state is recorded as sent although no patch was sent
PatchFailed_Records(seen, old, new_state) ==
    [seen EXCEPT !.last_state = Some(new_state)]

\* 566-576: Message::generate_patch fails: the change is skipped
PatchFailed(seen, old, new_state) == seen

\* 566-581: the patch is generated, the new state becomes the last one sent,
\* sync_respond(UpdateState(patch)); the client applies the patch to its view
PatchSent(seen, old, new_state) ==
    LET patch == generate_patch(old, new_state)
    IN  [PusherWrote(seen, "Patch") EXCEPT
            !.last_state = Some(new_state),
            !.patch = patch,
            !.view = Some(apply_patch(patch, seen.view[1]))]

\* mutant: the comparison with the last state sent is missing
P_Changed_NoSkip(p) ==
    /\ pushers[p].pc = "changed"
    /\ pushers[p].unseen
    /\ LET old == pushers[p].last_state[1]
           new_state == gen_player_state(pushers[p].cell, now)
           seen == [pushers[p] EXCEPT !.unseen = FALSE]
       IN  PusherStep(p, PatchSent(seen, old, new_state))

\* 546-581: a change was signalled: read the new state, skip it if equal,
\* else send the patch
P_Changed(p) ==
    /\ pushers[p].pc = "changed"
    /\ pushers[p].unseen
    /\ LET old == pushers[p].last_state[1]
           new_state == gen_player_state(pushers[p].cell, now)
           seen == [pushers[p] EXCEPT !.unseen = FALSE]
       IN  IF new_state = old THEN PusherStep(p, seen)
           ELSE \/ PusherStep(p, PatchSent(seen, old, new_state))
                \/ PusherStep(p, PatchFailed(seen, old, new_state))

\* a pusher that reports the end of the watch and keeps waiting on it
P_Closed_StaysSubscribed(p) ==
    /\ pushers[p].pc = "changed"
    /\ ~pushers[p].unseen
    /\ pushers[p].closed
    /\ PusherStep(p, [PusherWrote(pushers[p], "Empty") EXCEPT !.closed = FALSE])

\* 547-556: the watch has ended: sync_respond(EmptyState()), continue 'main
P_Closed(p) ==
    /\ pushers[p].pc = "changed"
    /\ ~pushers[p].unseen
    /\ pushers[p].closed
    /\ PusherStep(p, [PusherWrote(pushers[p], "Empty") EXCEPT
                          !.pc = "wait_player", !.sub = FALSE, !.closed = FALSE,
                          !.cell = PlayerState_new, !.last_state = None, !.view = None,
                          !.patch = EmptyPatch])

\* the aborted pusher is dropped at an await
P_Reap(p) ==
    /\ pushers[p].pc # "dead"
    /\ pushers[p].cancelled
    /\ PusherStep(p, DeadPusher)

(***************************************************************************)
(* handle_control_req (net.rs:189-281): one spawned task per request       *)
(***************************************************************************)
ControlTask(c, next) ==
    /\ controls' = [controls EXCEPT ![c] = next]
    /\ UNCHANGED <<rx, user, voice_state, vss, pss, pssLock, watchers, pushers, responders,
                   membership, chan, env, lim, write, senders, wire,
                   playerVars, now>>

\* mutant: the request of a guild without PlayerManager is dropped
C_Read_DropsUnmapped(c) ==
    /\ controls[c].pc = "read_vs"
    /\ ControlTask(c,
          IF voice_state = None
          THEN [controls[c] EXCEPT !.pc = "respond", !.res = "No Bot in Channel"]
          ELSE IF voice_state[1] \notin Managed
          THEN [controls[c] EXCEPT !.pc = "done"]
          ELSE [controls[c] EXCEPT !.pc = "request", !.vs = voice_state])

\* a handler that asks for the command whatever it read
C_Read_Dispatches(c) ==
    /\ controls[c].pc = "read_vs"
    /\ ControlTask(c, [controls[c] EXCEPT !.pc = "request", !.vs = voice_state])

\* 199-221: read the routing target, look the PlayerManager up
C_Read(c) ==
    /\ controls[c].pc = "read_vs"
    /\ ControlTask(c,
          IF voice_state = None
          THEN [controls[c] EXCEPT !.pc = "respond", !.res = "No Bot in Channel"]
          ELSE IF voice_state[1] \notin Managed
          THEN [controls[c] EXCEPT !.pc = "respond", !.res = "Internal Error"]
          ELSE [controls[c] EXCEPT !.pc = "request", !.vs = voice_state])

\* 223-277: the PlayerManager runs the command; res is Ok(()) or the error
C_Request(c) ==
    /\ controls[c].pc = "request"
    /\ \E res \in {"Ok", "PlayerError"} :
          ControlTask(c, [controls[c] EXCEPT !.pc = "respond", !.res = res])

\* 204, 216, 278: sync_respond(ClientControlResult(control_result))
C_Respond(c) ==
    /\ controls[c].pc = "respond"
    /\ ControlTask(c, [controls[c] EXCEPT
                          !.pc = "done",
                          !.out = Append(@, [kind |-> "ClientControlResult",
                                             uuid |-> controls[c].uuid,
                                             req |-> controls[c].cmd,
                                             res |-> controls[c].res])])

\* the Control requests for the play state
ToggleRequests == {[uuid |-> "u1", cmd |-> "Resume"], [uuid |-> "u2", cmd |-> "Pause"]}

\* 223-233: the PlayerRequest that a control command is sent as
PlayerRequest(cmd) == IF cmd \in {"Resume", "Pause"} THEN "PauseResume" ELSE cmd

\* 165, 189-192: a Control(Resume) or Control(Pause) request spawns its task
RX_Toggle ==
    /\ rx = "recv"
    /\ Len(controls) < lim.controls
    /\ \E r \in ToggleRequests :
          controls' = Append(controls, [uuid |-> r.uuid, cmd |-> r.cmd, pc |-> "read_vs",
                                        vs |-> None, res |-> "Ok", out |-> <<>>])
    /\ UNCHANGED <<rx, user, voice_state, vss, pss, pssLock, watchers, pushers, responders,
                   membership, chan, env, lim, write, senders, wire,
                   playerVars, now>>

\* 223-233: the PlayerManager runs PauseResume on the Player of the routing
\* target, which is dynamic_pause_resume; res is Ok(()) or the Player's error
C_Dispatch(c) ==
    /\ controls[c].pc = "request"
    /\ PlayerRequest(controls[c].cmd) = "PauseResume"
    /\ \E ok \in BOOLEAN :
          LET m == dynamic_pause_resume(Start(player_state), ok)
          IN  /\ player_state' = m.ps
              /\ published' = IF m.sent = <<>> THEN published ELSE m.sent[Len(m.sent)]
              /\ lastCmd' = [op |-> "control", cmd |-> controls[c].cmd]
              /\ result' = m.res
              /\ pubs' = Len(m.sent)
              /\ calls' = m.calls
              /\ panicked' = (panicked \/ m.panic)
              /\ controls' = [controls EXCEPT
                                 ![c].pc = "respond",
                                 ![c].res = IF m.res = "Ok" THEN "Ok" ELSE "PlayerError"]
    /\ UNCHANGED <<rx, user, voice_state, vss, pss, pssLock, watchers, pushers, responders,
                   membership, chan, env, lim, write, senders, wire, provider, now>>

(***************************************************************************)
(* respond / send_voice_state (net.rs:341-343, 426-474): detached writers  *)
(***************************************************************************)
\* the replies to requests, which the model keeps in the order they are written
Replies == {"ParseError", "MessageType", "AuthStatus", "AuthError"}

\* the frame is written; a membership notice counts for the pusher spawned with it
R_Write(f) ==
    /\ f \in responders
    /\ responders' = responders \ {f}
    /\ f.kind # "ReadUser"
    /\ pushers' = IF f.for # 0 /\ pushers[f.for].pc # "dead"
                  THEN [pushers EXCEPT ![f.for].notes = @ + 1]
                  ELSE pushers
    /\ env' = IF f.kind \in Replies
              THEN [env EXCEPT !.replies = Append(@, f)]
              ELSE env
    /\ UNCHANGED <<rx, user, voice_state, vss, pss, pssLock, watchers, controls,
                   membership, chan, lim, write, senders, wire,
                   playerVars, now>>

\* 438-460: no bot for the guild or no channel in the cache: nothing is sent
R_Fail(f) ==
    /\ f \in responders
    /\ f.vs # None
    /\ responders' = responders \ {f}
    /\ UNCHANGED <<rx, user, voice_state, vss, pss, pssLock, watchers, pushers, controls,
                   membership, chan, env, lim, write, senders, wire,
                   playerVars, now>>

(***************************************************************************)
(* sync_respond (net.rs:345-359), for whichever task calls it: the receive *)
(* loop, a detached writer, a pusher or a Control task                     *)
(***************************************************************************)
\* the outbound messages of the protocol
Frames == {"Auth", "UserVoiceState", "PlayerState", "ClientControlResult", "Unexpected"}

SenderStep(i, next) ==
    /\ senders' = [senders EXCEPT ![i].pc = next]
    /\ UNCHANGED <<rx, user, voice_state, vss, pss, pssLock, watchers, pushers, controls,
                   responders, membership, chan, env, lim,
                   playerVars, now>>

\* a task calls sync_respond(msg)
SR_Call ==
    /\ Len(senders) < MaxSenders
    /\ \E msg \in Frames : senders' = Append(senders, [msg |-> msg, pc |-> "generate"])
    /\ UNCHANGED <<rx, user, voice_state, vss, pss, pssLock, watchers, pushers, controls,
                   responders, membership, chan, env, lim, write, wire,
                   playerVars, now>>

\* 346-353: msg.generate(); on an error the call returns without writing
SR_Generate(i) ==
    /\ senders[i].pc = "generate"
    /\ \E next \in {"lock", "done"} : SenderStep(i, next)
    /\ UNCHANGED <<write, wire>>

\* a sync_respond that does not wait for the Mutex
SR_Lock_NoWait(i) ==
    /\ senders[i].pc = "lock"
    /\ write' = Some(i)
    /\ SenderStep(i, "send")
    /\ UNCHANGED wire

\* 355: self.write.lock().await
SR_Lock(i) ==
    /\ senders[i].pc = "lock"
    /\ write = None
    /\ write' = Some(i)
    /\ SenderStep(i, "send")
    /\ UNCHANGED wire

\* 355: .send(TungMessage::Binary(bin)): the frame starts to go out
SR_SendHead(i) ==
    /\ senders[i].pc = "send"
    /\ wire' = Append(wire, <<i, "head">>)
    /\ SenderStep(i, "sending")
    /\ UNCHANGED write

\* 355: the rest of the frame goes out, send returns and the guard is dropped
SR_SendTail(i) ==
    /\ senders[i].pc = "sending"
    /\ wire' = Append(wire, <<i, "tail">>)
    /\ write' = IF write = Some(i) THEN None ELSE write
    /\ SenderStep(i, "done")

\* 355-358: send returns an error before anything went out: it is logged
SR_SendError(i) ==
    /\ senders[i].pc = "send"
    /\ write' = IF write = Some(i) THEN None ELSE write
    /\ SenderStep(i, "done")
    /\ UNCHANGED wire

\* the calling task is aborted while it waits for the Mutex or for the socket:
\* the future is dropped, and the guard with it
SR_Abort(i) ==
    /\ senders[i].pc \in {"lock", "send"}
    /\ write' = IF write = Some(i) THEN None ELSE write
    /\ SenderStep(i, "done")
    /\ UNCHANGED wire

(***************************************************************************)
(* receive_run and auth (net.rs:132-187, 283-331)                          *)
(***************************************************************************)
\* 163, 285-317: an Authenticate request whose token and user lookups succeed:
\* the identity is stored and AuthSuccess is sent
RX_Auth ==
    /\ rx = "recv"
    /\ Len(watchers) < lim.auths
    /\ user' = Some("user")
    /\ rx' = "auth_swap"
    /\ UNCHANGED <<voice_state, vss, pss, pssLock, watchers, pushers, controls, responders,
                   membership, chan, env, lim, write, senders, wire,
                   playerVars, now>>

\* 320-330: remove the old watcher if it exists, insert the new one
RX_AuthSwap ==
    /\ rx = "auth_swap"
    /\ IF vss # None
       THEN /\ voice_state' = None
            /\ responders' = Respond(VoiceNone)
       ELSE UNCHANGED <<voice_state, responders>>
    /\ watchers' = Append(AbortWatcher(vss), NewWatcher)
    /\ vss' = Some(Len(watchers) + 1)
    /\ rx' = "recv"
    /\ UNCHANGED <<user, pss, pssLock, pushers, controls, membership, chan, env, lim, write, senders, wire,
                   playerVars, now>>

\* binary frames that do not parse as a Message
Garbage == {"g1", "g2"}

\* the n-th request the receive loop answers
Handled(kind, body) == [env EXCEPT !.handled = Append(@, [kind |-> kind, body |-> body])]

\* Message::Unexpected(Unexpected::ParseError(bin, ..)), the reply to request n
ParseError(bin, n) == [kind |-> "ParseError", vs |-> None, for |-> 0, n |-> n, body |-> bin]

\* a receive loop that gives up on the first frame that does not parse
RX_ParseError_Breaks ==
    /\ rx = "recv"
    /\ Len(env.handled) < lim.requests
    /\ \E bin \in Garbage :
          /\ env' = Handled("garbage", bin)
          /\ responders' = Respond(ParseError(bin, Len(env.handled) + 1))
    /\ rx' = "td_vss"
    /\ UNCHANGED <<user, voice_state, vss, pss, pssLock, watchers, pushers, controls,
                   membership, chan, lim, write, senders, wire,
                   playerVars, now>>

\* 149-160: the frame does not parse: the bytes go back through respond and
\* the loop continues
RX_ParseError ==
    /\ rx = "recv"
    /\ Len(env.handled) < lim.requests
    /\ \E bin \in Garbage :
          /\ env' = Handled("garbage", bin)
          /\ responders' = Respond(ParseError(bin, Len(env.handled) + 1))
    /\ UNCHANGED <<rx, user, voice_state, vss, pss, pssLock, watchers, pushers, controls,
                   membership, chan, lim, write, senders, wire,
                   playerVars, now>>

\* a receive loop that ends on a Message that is no ClientRequest
RX_Unexpected_Breaks ==
    /\ rx = "recv"
    /\ Len(env.handled) < lim.requests
    /\ \E msg \in Frames :
          /\ env' = Handled("unexpected", msg)
          /\ responders' = Respond([kind |-> "MessageType", vs |-> None, for |-> 0,
                                    n |-> Len(env.handled) + 1, body |-> msg])
    /\ rx' = "td_vss"
    /\ UNCHANGED <<user, voice_state, vss, pss, pssLock, watchers, pushers, controls,
                   membership, chan, lim, write, senders, wire,
                   playerVars, now>>

\* 170-176: the frame parses as a Message that is no ClientRequest: its name
\* goes back through respond
RX_Unexpected ==
    /\ rx = "recv"
    /\ Len(env.handled) < lim.requests
    /\ \E msg \in Frames :
          /\ env' = Handled("unexpected", msg)
          /\ responders' = Respond([kind |-> "MessageType", vs |-> None, for |-> 0,
                                    n |-> Len(env.handled) + 1, body |-> msg])
    /\ UNCHANGED <<rx, user, voice_state, vss, pss, pssLock, watchers, pushers, controls,
                   membership, chan, lim, write, senders, wire,
                   playerVars, now>>

\* an auth that starts the watcher although the credential exchange failed
RX_AuthError_StartsWatcher ==
    /\ rx = "recv"
    /\ Len(env.handled) < lim.requests
    /\ \E failed \in {"get_token", "get_user_id"} :
          env' = [Handled("auth_fail", failed) EXCEPT
                     !.replies = Append(@, [kind |-> "AuthError", vs |-> None, for |-> 0,
                                            n |-> Len(env.handled) + 1, body |-> None])]
    /\ watchers' = Append(AbortWatcher(vss), NewWatcher)
    /\ vss' = Some(Len(watchers) + 1)
    /\ UNCHANGED <<rx, user, voice_state, pss, pssLock, pushers, controls,
                   responders, membership, chan, lim, write, senders, wire,
                   playerVars, now>>

\* 285-307: get_token or get_user_id fails: AuthError is written and auth returns
RX_AuthError ==
    /\ rx = "recv"
    /\ Len(env.handled) < lim.requests
    /\ \E failed \in {"get_token", "get_user_id"} :
          env' = [Handled("auth_fail", failed) EXCEPT
                     !.replies = Append(@, [kind |-> "AuthError", vs |-> None, for |-> 0,
                                            n |-> Len(env.handled) + 1, body |-> None])]
    /\ UNCHANGED <<rx, user, voice_state, vss, pss, pssLock, watchers, pushers, controls,
                   responders, membership, chan, lim, write, senders, wire,
                   playerVars, now>>

\* 164, 333-335: an AuthStatus request spawns the task that reads the identity
RX_AuthStatus ==
    /\ rx = "recv"
    /\ Len(env.handled) < lim.requests
    /\ env' = Handled("auth_status", user # None)
    /\ responders' = Respond([kind |-> "ReadUser", vs |-> None, for |-> 0,
                              n |-> Len(env.handled) + 1, body |-> None])
    /\ UNCHANGED <<rx, user, voice_state, vss, pss, pssLock, watchers, pushers, controls,
                   membership, chan, lim, write, senders, wire,
                   playerVars, now>>

\* 336-337: the task reads the identity and hands AuthStatus to respond
AS_Read(f) ==
    /\ f \in responders
    /\ f.kind = "ReadUser"
    /\ responders' = Respond([f EXCEPT !.kind = "AuthStatus", !.body = user # None]) \ {f}
    /\ UNCHANGED <<rx, user, voice_state, vss, pss, pssLock, watchers, pushers, controls,
                   membership, chan, env, lim, write, senders, wire,
                   playerVars, now>>

\* 165, 189-192: a Control request spawns its task
RX_Control ==
    /\ rx = "recv"
    /\ Len(controls) < lim.controls
    /\ \E r \in Requests :
          controls' = Append(controls, [uuid |-> r.uuid, cmd |-> r.cmd, pc |-> "read_vs",
                                        vs |-> None, res |-> "Ok", out |-> <<>>])
    /\ UNCHANGED <<rx, user, voice_state, vss, pss, pssLock, watchers, pushers, responders,
                   membership, chan, env, lim, write, senders, wire,
                   playerVars, now>>

\* 133-146, 166-169: read error, Close frame, End request or end of stream
RX_End ==
    /\ rx = "recv"
    /\ rx' = "td_vss"
    /\ UNCHANGED <<user, voice_state, vss, pss, pssLock, watchers, pushers, controls,
                   responders, membership, chan, env, lim, write, senders, wire,
                   playerVars, now>>

\* 179-182: take and abort the watcher
RX_TeardownWatcher ==
    /\ rx = "td_vss"
    /\ watchers' = AbortWatcher(vss)
    /\ vss' = None
    /\ rx' = "td_pss"
    /\ UNCHANGED <<user, voice_state, pss, pssLock, pushers, controls, responders,
                   membership, chan, env, lim, write, senders, wire,
                   playerVars, now>>

\* 183-186: take and abort the pusher
RX_TeardownPusher ==
    /\ rx = "td_pss"
    /\ pssLock = None
    /\ pushers' = AbortPusher(pss)
    /\ pss' = None
    /\ rx' = "done"
    /\ UNCHANGED <<user, voice_state, vss, pssLock, watchers, controls, responders,
                   membership, chan, env, lim, write, senders, wire,
                   playerVars, now>>

(***************************************************************************)
(* The environment of the session: the user's voice channel and the        *)
(* Players of the channels.                                                *)
(***************************************************************************)
Memberships == {None} \cup {Some(t) : t \in Targets}

Move ==
    /\ env.moves < lim.moves
    /\ \E m \in Memberships \ {membership} : membership' = m
    /\ env' = [env EXCEPT !.moves = @ + 1]
    /\ UNCHANGED <<rx, user, voice_state, vss, pss, pssLock, watchers, pushers, controls,
                   responders, chan, lim, write, senders, wire,
                   playerVars, now>>

\* Player::new (player.rs:50-51): the watch starts with the new state
PlayerJoin(t) ==
    /\ ~chan[t].up
    /\ chan' = [chan EXCEPT ![t] = [up |-> TRUE, val |-> PlayerState_new, dirty |-> FALSE]]
    /\ UNCHANGED <<rx, user, voice_state, vss, pss, pssLock, watchers, pushers, controls,
                   responders, membership, env, lim, write, senders, wire,
                   playerVars, now>>

Subscribed(p, t) == p.pc # "dead" /\ p.sub /\ p.target = t /\ ~p.closed

\* the Player is dropped: its watch Sender is gone
PlayerLeave(t) ==
    /\ chan[t].up
    /\ env.leaves < lim.leaves
    /\ chan' = [chan EXCEPT ![t] = NoChannel]
    /\ pushers' = [p \in DOMAIN pushers |->
                     IF Subscribed(pushers[p], t) THEN [pushers[p] EXCEPT !.closed = TRUE]
                     ELSE pushers[p]]
    /\ env' = [env EXCEPT !.leaves = @ + 1]
    /\ UNCHANGED <<rx, user, voice_state, vss, pss, pssLock, watchers, controls,
                   responders, membership, lim, write, senders, wire,
                   playerVars, now>>

\* a Player command sends a snapshot (player.rs: self.send.send)
PlayerPublishes(t) ==
    /\ chan[t].up
    /\ env.publishes < lim.publishes
    /\ \E s \in Snapshots :
          /\ chan' = [chan EXCEPT ![t].val = s, ![t].dirty = TRUE]
          /\ pushers' = [p \in DOMAIN pushers |->
                           IF Subscribed(pushers[p], t)
                           THEN [pushers[p] EXCEPT !.unseen = TRUE, !.cell = s]
                           ELSE pushers[p]]
    /\ env' = [env EXCEPT !.publishes = @ + 1]
    /\ UNCHANGED <<rx, user, voice_state, vss, pss, pssLock, watchers, controls,
                   responders, membership, lim, write, senders, wire,
                   playerVars, now>>

NewChannel == [NoChannel EXCEPT !.up = TRUE]

\* the connection has been accepted; the user is in some channel or none
Accepted(limits, chans) ==
    /\ PlayerInit
    /\ rx = "recv"
    /\ user = None
    /\ voice_state = None
    /\ vss = None
    /\ pss = None
    /\ pssLock = None
    /\ watchers = <<>>
    /\ pushers = <<>>
    /\ controls = <<>>
    /\ responders = {}
    /\ membership \in Memberships
    /\ chan \in [Managed -> chans]
    /\ env = [moves |-> 0, publishes |-> 0, leaves |-> 0, handled |-> <<>>, replies |-> <<>>]
    /\ lim \in limits
    /\ write = None
    /\ senders = <<>>
    /\ wire = <<>>

\* the channel the user is in, where a Player of this bot can be
Here == {t \in Managed : membership = Some(t)}

Watcher ==
    \/ \E w \in DOMAIN watchers : W_Start(w)
    \/ \E w \in DOMAIN watchers : W_Poll(w)
    \/ \E w \in DOMAIN watchers : W_Wake(w)
    \/ \E w \in DOMAIN watchers : W_Lock(w)
    \/ \E w \in DOMAIN watchers : W_Write(w)

\* the pusher up to its first state
PusherStart ==
    \/ \E p \in DOMAIN pushers : P_Start(p)
    \/ \E p \in DOMAIN pushers : P_GetPlayer(p)

\* the pusher's patches and the end of the watch
PusherStream ==
    \/ \E p \in DOMAIN pushers : P_Changed(p)
    \/ \E p \in DOMAIN pushers : P_Closed(p)

\* aborted tasks are dropped
Reap ==
    \/ \E w \in DOMAIN watchers : W_Reap(w)
    \/ \E p \in DOMAIN pushers : P_Reap(p)

Control ==
    \/ RX_Control
    \/ \E c \in DOMAIN controls : C_Read(c)
    \/ \E c \in DOMAIN controls : C_Request(c)
    \/ \E c \in DOMAIN controls : C_Respond(c)

Responder ==
    \/ \E f \in responders : R_Write(f)
    \/ \E f \in responders : R_Fail(f)

Authenticate == RX_Auth \/ RX_AuthSwap

Teardown == RX_End \/ RX_TeardownWatcher \/ RX_TeardownPusher

(***************************************************************************)
(* SessionSpec: the lifecycle of the watcher and the pusher under          *)
(* Authenticate requests, membership changes and the teardown.             *)
(***************************************************************************)
\* the client authenticates again while the user stays, or the user moves
\* while the client stays authenticated
SessionLimits ==
    {[auths |-> MaxAuths, pushers |-> MaxPushers, controls |-> 0, moves |-> 0,
      publishes |-> 0, leaves |-> 0, requests |-> 0],
     [auths |-> 1, pushers |-> MaxPushers, controls |-> 0, moves |-> MaxMoves,
      publishes |-> 0, leaves |-> 0, requests |-> 0]}

SessionInit == Accepted(SessionLimits, {NoChannel, NewChannel})

SessionNext ==
    \/ Authenticate
    \/ Watcher
    \/ PusherStart
    \/ Reap
    \/ Responder
    \/ Teardown
    \/ Move
    \/ \E t \in Managed : PlayerJoin(t)

SessionSpec == SessionInit /\ [][SessionNext]_vars

(***************************************************************************)
(* StreamSpec: the frames of the pusher while the Player of the user's     *)
(* channel publishes, leaves and comes back; nothing is aborted.           *)
(***************************************************************************)
StreamLimits ==
    {[auths |-> 1, pushers |-> 1, controls |-> 0, moves |-> 0,
      publishes |-> MaxPublishes, leaves |-> MaxLeaves, requests |-> 0]}

\* a Player that has published before the client connected
BusyChannels == {[up |-> TRUE, val |-> s, dirty |-> TRUE] : s \in Snapshots}

StreamInit ==
    /\ Accepted(StreamLimits, {NoChannel, NewChannel} \cup BusyChannels)
    /\ Here # {}
    /\ \A t \in Managed \ Here : chan[t] = NoChannel

StreamNext ==
    \/ Authenticate
    \/ Watcher
    \/ PusherStart
    \/ PusherStream
    \/ Responder
    \/ \E t \in Here : PlayerJoin(t)
    \/ \E t \in Here : PlayerLeave(t)
    \/ \E t \in Here : PlayerPublishes(t)
    \/ Tick

StreamSpec == StreamInit /\ [][StreamNext]_vars

\* tokio polls a task that was woken: a pusher whose watch has changed or has
\* ended runs its next step, as do the watcher and the detached writers
FairStreamSpec ==
    /\ StreamSpec
    /\ WF_vars(Watcher)
    /\ WF_vars(PusherStart)
    /\ WF_vars(PusherStream)
    /\ WF_vars(Responder)

(***************************************************************************)
(* FairCloseSpec: the stream of a session whose Player, if there is one    *)
(* when the client connects, has not published yet; the Player is torn     *)
(* down and created again while the pusher runs.                           *)
(***************************************************************************)
CloseInit ==
    /\ Accepted(StreamLimits, {NoChannel, NewChannel})
    /\ Here # {}
    /\ \A t \in Managed \ Here : chan[t] = NoChannel

FairCloseSpec ==
    /\ CloseInit /\ [][StreamNext]_vars
    /\ WF_vars(Watcher)
    /\ WF_vars(PusherStart)
    /\ WF_vars(PusherStream)
    /\ WF_vars(Responder)

(***************************************************************************)
(* RequestSpec: the receive loop answers malformed frames, failing         *)
(* Authenticate requests and AuthStatus requests, before and after the     *)
(* client has authenticated; the connection stays open.                    *)
(***************************************************************************)
RequestLimits ==
    {[auths |-> 1, pushers |-> MaxPushers, controls |-> 0, moves |-> 0,
      publishes |-> 0, leaves |-> 0, requests |-> MaxRequests]}

RequestInit == Accepted(RequestLimits, {NewChannel})

RequestNext ==
    \/ Authenticate
    \/ RX_ParseError
    \/ RX_AuthError
    \/ RX_AuthStatus
    \/ \E f \in responders : AS_Read(f)
    \/ Watcher
    \/ Responder

RequestSpec == RequestInit /\ [][RequestNext]_vars

(***************************************************************************)
(* LoopSpec: the receive loop from the accepted connection to its end:     *)
(* requests that fail or cannot be read, a Control request, the teardown.  *)
(***************************************************************************)
LoopLimits ==
    {[auths |-> 1, pushers |-> MaxPushers, controls |-> 1, moves |-> 0,
      publishes |-> 0, leaves |-> 0, requests |-> MaxRequests]}

LoopInit == Accepted(LoopLimits, {NewChannel}) /\ membership # None

LoopNext ==
    \/ Authenticate
    \/ RX_ParseError
    \/ RX_AuthError
    \/ RX_Unexpected
    \/ Control
    \/ Watcher
    \/ Teardown

LoopSpec == LoopInit /\ [][LoopNext]_vars

(***************************************************************************)
(* WriterSpec: the tasks of one connection call sync_respond concurrently. *)
(***************************************************************************)
WriterInit == Accepted({NoSession}, {NoChannel}) /\ membership = None

WriterNext ==
    \/ SR_Call
    \/ \E i \in DOMAIN senders : SR_Generate(i)
    \/ \E i \in DOMAIN senders : SR_Lock(i)
    \/ \E i \in DOMAIN senders : SR_SendHead(i)
    \/ \E i \in DOMAIN senders : SR_SendTail(i)
    \/ \E i \in DOMAIN senders : SR_SendError(i)
    \/ \E i \in DOMAIN senders : SR_Abort(i)

WriterSpec == WriterInit /\ [][WriterNext]_vars

(***************************************************************************)
(* ControlSpec: Control requests in flight while the watcher records the   *)
(* routing target; the connection stays open. The pushers and the detached *)
(* writers, which touch nothing a Control task reads, do not run here.     *)
(***************************************************************************)
ControlLimits ==
    {[auths |-> 1, pushers |-> MaxPushers, controls |-> MaxControls, moves |-> MaxMoves,
      publishes |-> 0, leaves |-> 0, requests |-> 0]}

ControlInit == Accepted(ControlLimits, {NewChannel})

ControlNext ==
    \/ Authenticate
    \/ Watcher
    \/ Control
    \/ Move

ControlSpec == ControlInit /\ [][ControlNext]_vars

(***************************************************************************)
(* FairLockSpec: the tasks that lock the pusher slot (the watchers and the *)
(* teardown of the receive loop) while Authenticate requests and the       *)
(* teardown abort watchers that wait for the slot or hold it. The slot of  *)
(* the watcher is locked by the receive loop only; the locks of the        *)
(* routing target and of the identity are released in the statement that   *)
(* takes them. tokio polls a task that can run, and drops an aborted task  *)
(* at its await.                                                           *)
(***************************************************************************)
LockLimits ==
    {[auths |-> MaxAuths, pushers |-> MaxPushers, controls |-> 0, moves |-> 0,
      publishes |-> 0, leaves |-> 0, requests |-> 0],
     [auths |-> 1, pushers |-> MaxPushers, controls |-> 0, moves |-> MaxMoves,
      publishes |-> 0, leaves |-> 0, requests |-> 0],
     NoSession}

LockInit ==
    /\ Accepted(LockLimits, {NoChannel})
    /\ lim = NoSession => membership = None

\* no task holds the lock of the pusher slot and the lock of the socket at a
\* time (the watcher and auth hand their frames to detached writers), so the
\* calls of sync_respond, two that contend for the socket, run in the sessions
\* without a watcher
LockNext ==
    \/ Authenticate
    \/ Watcher
    \/ \E w \in DOMAIN watchers : W_Reap(w)
    \/ Teardown
    \/ Move
    \/ lim = NoSession /\ Len(senders) < 2 /\ SR_Call
    \/ \E i \in DOMAIN senders : SR_Generate(i)
    \/ \E i \in DOMAIN senders : SR_Lock(i)
    \/ \E i \in DOMAIN senders : SR_SendHead(i)
    \/ \E i \in DOMAIN senders : SR_SendTail(i)
    \/ \E i \in DOMAIN senders : SR_SendError(i)
    \/ \E i \in DOMAIN senders : SR_Abort(i)

\* the steps of the sync_respond call i up to the release of the socket: the
\* socket takes the frame or fails
SenderRuns(i) ==
    /\ i \in DOMAIN senders
    /\ SR_Lock(i) \/ SR_SendHead(i) \/ SR_SendTail(i) \/ SR_SendError(i)

\* the steps of the watcher w that take or release the pusher slot
WatcherRuns(w) ==
    /\ w \in DOMAIN watchers
    /\ W_Start(w) \/ W_Lock(w) \/ W_Write(w) \/ W_Reap(w)

FairLockSpec ==
    /\ LockInit /\ [][LockNext]_vars
    /\ \A w \in 1..MaxAuths : WF_vars(WatcherRuns(w))
    /\ \A i \in 1..2 : WF_vars(SenderRuns(i))
    /\ WF_vars(RX_AuthSwap)
    /\ WF_vars(RX_TeardownWatcher \/ RX_TeardownPusher)

(***************************************************************************)
(* DispatchSpec: Control(Resume) and Control(Pause) requests of an         *)
(* authenticated client act on the Player of its routing target.           *)
(***************************************************************************)
DispatchLimits ==
    {[auths |-> 1, pushers |-> 1, controls |-> MaxControls, moves |-> 0,
      publishes |-> 0, leaves |-> 0, requests |-> 0]}

DispatchInit == Accepted(DispatchLimits, {NewChannel}) /\ membership # None

Toggle ==
    \/ RX_Toggle
    \/ \E c \in DOMAIN controls : C_Read(c)
    \/ \E c \in DOMAIN controls : C_Dispatch(c)
    \/ \E c \in DOMAIN controls : C_Respond(c)

DispatchNext ==
    \/ Authenticate
    \/ Watcher
    \/ Toggle

DispatchSpec == DispatchInit /\ [][DispatchNext]_vars

(***************************************************************************)
(* Claims about the Player.                                                *)
(***************************************************************************)
Min(a, b) == IF a < b THEN a ELSE b

Prefix(s, n) == SubSeq(s, 1, Min(Len(s), n))

WellFormedCurrent(c) ==
    /\ c.track \in Tracks
    /\ c.pos \in 0..MaxPos
    /\ c.when \in 0..now

\* C1: after any sequence of Player commands, in any loop mode, Playlist and
\* History hold at most MUSIC_QUEUE_LIMIT tracks, Current is absent or exactly
\* one well-formed track, and no push helper has reached an expect() panic.
C1_Bounded ==
    /\ Len(player_state.playlist) <= MUSIC_QUEUE_LIMIT
    /\ Len(player_state.history) <= MUSIC_QUEUE_LIMIT
    /\ \A i \in 1..Len(player_state.playlist) : player_state.playlist[i] \in Tracks
    /\ \A i \in 1..Len(player_state.history) : player_state.history[i] \in Tracks
    /\ Len(player_state.current) <= 1
    /\ player_state.current # None => WellFormedCurrent(player_state.current[1])
    /\ ~panicked

\* C1 witness: a skip has pushed into a History that is now full, next to a
\* full Playlist.
C1_Witness ==
    /\ lastCmd.op = "skip"
    /\ lastCmd.i >= 2
    /\ Len(player_state.history) = MUSIC_QUEUE_LIMIT
    /\ Len(player_state.playlist) = MUSIC_QUEUE_LIMIT - 1
    /\ pubs = 1

\* C2: whenever a Player command has returned, the most recently published
\* snapshot equals the Player's internal state.
C2_PublishedIsState == published = player_state

\* C9: enqueue of a non-empty batch into a full Playlist fails with
\* PlaylistFull, changes nothing, publishes nothing and calls no provider;
\* when the first track fits, enqueue succeeds (as originally claimed).
C9_Original ==
    [][\A b \in Batches :
         (lastCmd' = [op |-> "enqueue", tracks |-> b] /\ b # <<>>) =>
            IF is_full(player_state.playlist)
            THEN /\ result' = "PlaylistFull"
                 /\ player_state' = player_state
                 /\ pubs' = 0
                 /\ calls' = <<>>
            ELSE result' = "Ok"]_vars

\* C9 amended: as above for the full Playlist; when the first track fits,
\* enqueue never fails with PlaylistFull, the tracks that no longer fit are
\* dropped, and it returns Ok unless the provider call of play_next fails.
C9_EnqueueOverflow ==
    [][\A b \in Batches :
         (lastCmd' = [op |-> "enqueue", tracks |-> b] /\ b # <<>>) =>
            IF is_full(player_state.playlist)
            THEN /\ result' = "PlaylistFull"
                 /\ player_state' = player_state
                 /\ published' = published
                 /\ pubs' = 0
                 /\ calls' = <<>>
            ELSE LET fit == Prefix(b, MUSIC_QUEUE_LIMIT - Len(player_state.playlist))
                     all == player_state.playlist \o fit
                 IN  /\ result' # "PlaylistFull"
                     /\ result' = "Lavalink" =>
                            /\ Len(calls') = 1
                            /\ player_state.current = None
                     /\ IF player_state.current = None
                        THEN /\ player_state'.current[1].track = Head(all)
                             /\ player_state'.playlist = Tail(all)
                        ELSE player_state'.playlist = all
                     /\ player_state'.history = player_state.history]_vars

\* C9 witness: an enqueue has been rejected with PlaylistFull.
C9_Witness ==
    /\ lastCmd.op = "enqueue"
    /\ result = "PlaylistFull"
    /\ Len(lastCmd.tracks) = MaxBatch
    /\ Len(player_state.playlist) = MUSIC_QUEUE_LIMIT

\* C10: enqueue of [t1..tk], k >= 1, with Current absent and an empty Playlist
\* ends with Current = t1 at elapsed 0, Playlist = [t2..tk], PlayState Play,
\* one play(t1) call and one snapshot; with Current present it appends the
\* batch, leaves Current, calls no provider and publishes one snapshot (as
\* originally claimed).
C10_Original ==
    [][\A b \in Batches :
         (lastCmd' = [op |-> "enqueue", tracks |-> b] /\ b # <<>>) =>
            /\ (player_state.current = None /\ player_state.playlist = <<>>) =>
                  /\ player_state'.current = Some([pos |-> 0, when |-> now, track |-> b[1]])
                  /\ player_state'.playlist = Tail(b)
                  /\ player_state'.play_state = "Play"
                  /\ calls' = <<[op |-> "play", track |-> b[1]]>>
                  /\ pubs' = 1
            /\ player_state.current # None =>
                  /\ player_state'.playlist = player_state.playlist \o b
                  /\ player_state'.current = player_state.current
                  /\ calls' = <<>>
                  /\ pubs' = 1]_vars

\* C10 amended: the Playlist ends as [t2..tm] with m = min(k, MUSIC_QUEUE_LIMIT),
\* later tracks being dropped; and with Current present and a Playlist that is
\* not full, enqueue appends the tracks that fit, leaves Current, History,
\* PlayState and loop mode, calls no provider and publishes one snapshot, which
\* is the new state.
C10_EnqueueStarts ==
    [][\A b \in Batches :
         (lastCmd' = [op |-> "enqueue", tracks |-> b] /\ b # <<>>) =>
            /\ (player_state.current = None /\ player_state.playlist = <<>>) =>
                  /\ player_state'.current = Some([pos |-> 0, when |-> now, track |-> b[1]])
                  /\ player_state'.playlist = Tail(Prefix(b, MUSIC_QUEUE_LIMIT))
                  /\ player_state'.play_state = "Play"
                  /\ player_state'.history = player_state.history
                  /\ player_state'.playback = player_state.playback
                  /\ calls' = <<[op |-> "play", track |-> b[1]]>>
                  /\ pubs' = 1
                  /\ published' = player_state'
            /\ (player_state.current # None /\ ~is_full(player_state.playlist)) =>
                  /\ player_state' =
                        [player_state EXCEPT !.playlist =
                            @ \o Prefix(b, MUSIC_QUEUE_LIMIT - Len(@))]
                  /\ calls' = <<>>
                  /\ result' = "Ok"
                  /\ pubs' = 1
                  /\ published' = player_state']_vars

\* C10 witness: an enqueue of two tracks or more has started the first one on
\* an empty Player.
C10_Witness ==
    /\ lastCmd.op = "enqueue"
    /\ Len(lastCmd.tracks) >= 2
    /\ player_state.current # None
    /\ player_state.current[1].track = lastCmd.tracks[1]
    /\ player_state.current[1].when = now
    /\ player_state.history = <<>>
    /\ player_state.playlist = Tail(Prefix(lastCmd.tracks, MUSIC_QUEUE_LIMIT))
    /\ calls = <<[op |-> "play", track |-> lastCmd.tracks[1]]>>
    /\ pubs = 1

\* C11: in Normal mode with Current = A and an empty Playlist, skip(1) puts
\* A at the front of History, leaves Current absent and issues stop; a track
\* end with Current absent and an empty Playlist changes nothing, publishes
\* nothing and issues stop again.
C11_StopOnEmpty ==
    [][/\ (/\ lastCmd' = [op |-> "skip", i |-> 1]
           /\ player_state.playback = "Normal"
           /\ player_state.current # None
           /\ player_state.playlist = <<>>)
          => /\ player_state'.current = None
             /\ player_state'.history =
                   Prefix(<<player_state.current[1].track>> \o player_state.history,
                          MUSIC_QUEUE_LIMIT)
             /\ player_state'.playlist = <<>>
             /\ calls' = <<[op |-> "stop"]>>
       /\ (/\ lastCmd' = [op |-> "track_end"]
           /\ player_state.current = None
           /\ player_state.playlist = <<>>)
          => /\ player_state' = player_state
             /\ published' = published
             /\ pubs' = 0
             /\ calls' = <<[op |-> "stop"]>>]_vars

\* a track end has found Current absent and the Playlist empty after a track
\* was moved to History
C11_Witness ==
    /\ lastCmd = [op |-> "track_end"]
    /\ player_state.playback = "Normal"
    /\ player_state.current = None
    /\ player_state.playlist = <<>>
    /\ player_state.history # <<>>
    /\ calls = <<[op |-> "stop"]>>
    /\ pubs = 0

\* C12: skip(0) and back_skip(0) change nothing of the Player state, publish
\* nothing and call no provider.
C12_ZeroIsNoOp ==
    [][(lastCmd' \in {[op |-> "skip", i |-> 0], [op |-> "back_skip", i |-> 0]})
       => /\ player_state' = player_state
          /\ published' = published
          /\ pubs' = 0
          /\ calls' = <<>>
          /\ result' = "Ok"]_vars

\* back_skip(0) has returned on a Player without Current whose History holds
\* a track
C12_Witness ==
    /\ lastCmd = [op |-> "back_skip", i |-> 0]
    /\ player_state.current = None
    /\ player_state.history # <<>>
    /\ calls = <<>>
    /\ pubs = 0

LoopModes == {"AllLoop", "OneLoop"}

\* C13: two playback requests in a row with the same loop mode leave the
\* mode Normal, and each publishes a snapshot (as claimed).
C13_Original ==
    [][(lastCmd'.op = "playback_again" /\ lastCmd'.mode \in LoopModes)
       => /\ player_state'.playback = "Normal"
          /\ pubs = 1
          /\ pubs' = 1]_vars

\* C13 amended: the two requests leave the mode Normal when the mode before
\* the first one was another mode (the first request then has set it); when
\* it was that mode already, the first request has left Normal and the second
\* sets the mode again. Each request publishes one snapshot, the new state.
C13_ToggleTwice ==
    [][(lastCmd'.op = "playback_again" /\ lastCmd'.mode \in LoopModes)
       => /\ player_state.playback \in {lastCmd'.mode, "Normal"}
          /\ player_state'.playback =
                (IF player_state.playback = lastCmd'.mode THEN "Normal" ELSE lastCmd'.mode)
          /\ pubs = 1
          /\ pubs' = 1
          /\ published' = player_state']_vars

\* the second request for AllLoop has returned and the mode is Normal
C13_Witness ==
    /\ lastCmd = [op |-> "playback_again", mode |-> "AllLoop"]
    /\ player_state.playback = "Normal"
    /\ pubs = 1

(***************************************************************************)
(* Claims about the session.                                               *)
(***************************************************************************)
LiveWatchers == {w \in DOMAIN watchers : Live(watchers[w])}

LivePushers == {p \in DOMAIN pushers : Live(pushers[p])}

\* C3: at every instant at most one watcher and at most one pusher of the
\* session is live (started, neither aborted nor finished), and when a
\* watcher or a pusher is started every earlier one has been aborted or has
\* finished.
C3_OneLive ==
    /\ [](Cardinality(LiveWatchers) <= 1 /\ Cardinality(LivePushers) <= 1)
    /\ [][/\ Len(watchers') > Len(watchers)
             => \A w \in DOMAIN watchers : ~Live(watchers'[w])
          /\ Len(pushers') > Len(pushers)
             => \A p \in DOMAIN pushers : ~Live(pushers'[p])]_vars

\* the second watcher and the second pusher are live while the first pusher,
\* aborted, has not been dropped yet
C3_Witness ==
    /\ Len(watchers) = 2
    /\ Live(watchers[2])
    /\ Len(pushers) = 2
    /\ Live(pushers[2])
    /\ pushers[1].pc # "dead"
    /\ pushers[1].cancelled

\* C4: once the receive loop has exited and its teardown has run, no watcher
\* and no pusher of the session is live.
C4_TeardownFinal ==
    rx = "done" => LiveWatchers = {} /\ LivePushers = {}

C_Results == {"Ok", "PlayerError", "No Bot in Channel", "Internal Error"}

\* C5: every Control request hands exactly one ClientControlResult to the
\* socket writer by the time its task ends and none before, with the uuid and
\* the command of the request and a result that is ok or an error string.
C5_OneResult ==
    \A c \in DOMAIN controls :
        /\ Len(controls[c].out) = (IF controls[c].pc = "done" THEN 1 ELSE 0)
        /\ \A i \in DOMAIN controls[c].out :
              /\ controls[c].out[i].kind = "ClientControlResult"
              /\ controls[c].out[i].uuid = controls[c].uuid
              /\ controls[c].out[i].req = controls[c].cmd
              /\ controls[c].out[i].res \in C_Results

\* two requests in flight: the second has answered that no routing target is
\* recorded while the first, which has read one, still runs its command
C5_Witness ==
    /\ Len(controls) = 2
    /\ controls[1].pc = "request"
    /\ controls[2].pc = "done"
    /\ controls[2].out[1].res = "No Bot in Channel"
    /\ controls[1].uuid # controls[2].uuid

Patches(n) == [i \in 1..n |-> "Patch"]

\* C7: the frames a pusher has sent since it subscribed are one Full frame
\* followed by Patch frames only, and a Patch frame is sent only when the
\* snapshot read differs from the last one sent.
C7_FullThenPatches ==
    /\ [](\A p \in DOMAIN pushers :
             pushers[p].sub =>
                 pushers[p].stream = <<"Full">> \o Patches(Len(pushers[p].stream) - 1))
    /\ [][\A p \in DOMAIN pushers :
             (/\ pushers[p].sub
              /\ pushers'[p].sub
              /\ Len(pushers'[p].stream) > Len(pushers[p].stream))
             => /\ pushers'[p].last_state # pushers[p].last_state
                /\ pushers'[p].patch # EmptyPatch]_vars

\* every publish has been seen and only one of them made a frame
C7_Witness ==
    \E p \in DOMAIN pushers :
        /\ pushers[p].stream = <<"Full", "Patch">>
        /\ ~pushers[p].unseen
        /\ env.publishes = MaxPublishes

\* C8: after the user has moved to channel Y, the client has received exactly
\* one UserVoiceState(Y) frame when the pusher bound to Y writes its first
\* frame.
C8_NoticeFirst ==
    (/\ env.moves = 1
     /\ Len(pushers) = 2
     /\ pushers[2].target = "Y"
     /\ pushers[2].notesAtFirst >= 0)
    => pushers[2].notesAtFirst = 1

\* the requests of one kind the receive loop has answered
HandledAs(kind) == {i \in DOMAIN env.handled : env.handled[i].kind = kind}

\* the replies to request i that wait in a detached writer / that were written
Pending(i) == {f \in responders : f.kind \in Replies \cup {"ReadUser"} /\ f.n = i}

Written(i) == {j \in DOMAIN env.replies : env.replies[j].n = i}

\* the receive loop has just answered a request of this kind
Answers(kind) ==
    /\ Len(env'.handled) = Len(env.handled) + 1
    /\ env'.handled[Len(env'.handled)].kind = kind

\* C14: a binary frame that does not parse makes the receive loop hand exactly one
\* Unexpected(ParseError) carrying the received bytes to a writer, which writes it
\* once; the loop stays in its receiving state, where every request is still
\* taken, and the identity, the routing target, the watcher and the pusher are
\* left as they were.
C14_ParseErrorEchoed ==
    /\ [](\A i \in HandledAs("garbage") :
            LET frame == ParseError(env.handled[i].body, i) IN
            /\ Pending(i) \subseteq {frame}
            /\ \A j \in Written(i) : env.replies[j] = frame
            /\ Cardinality(Pending(i)) + Cardinality(Written(i)) = 1)
    /\ [][Answers("garbage") =>
            /\ rx = "recv" /\ rx' = "recv"
            /\ UNCHANGED <<user, voice_state, vss, pss, watchers, pushers>>
            /\ Cardinality(responders' \ responders) = 1]_vars

\* a malformed frame was echoed after the client authenticated, and the AuthStatus
\* request that followed it was answered
C14_Witness ==
    \E i \in HandledAs("garbage"), k \in HandledAs("auth_status") :
        /\ i < k
        /\ user # None /\ vss # None
        /\ Written(i) # {} /\ Written(k) # {}

\* the Control task c reads the routing target in this step
Reads(c) ==
    /\ c \in DOMAIN controls
    /\ controls[c].pc = "read_vs"
    /\ controls'[c].pc # "read_vs"

\* C15: a Control request that finds no routing target, or a guild without
\* PlayerManager, goes straight to its reply, with the error "No Bot in Channel"
\* resp. "Internal Error": it never asks the PlayerManager for the command, the
\* receive loop stays where it was, and the one frame the task writes is the
\* ClientControlResult of the request with that error.
C15_NoTargetNoCommand ==
    /\ [][\A c \in DOMAIN controls :
            Reads(c) /\ (voice_state = None \/ voice_state[1] \notin Managed) =>
               /\ controls'[c].pc = "respond"
               /\ controls'[c].res = IF voice_state = None THEN "No Bot in Channel"
                                                          ELSE "Internal Error"
               /\ rx' = rx]_vars
    /\ [](\A c \in DOMAIN controls :
            controls[c].res \in {"No Bot in Channel", "Internal Error"} =>
               /\ controls[c].pc \in {"respond", "done"}
               /\ controls[c].vs = None
               /\ rx \notin {"td_vss", "td_pss", "done"}
               /\ controls[c].out = IF controls[c].pc = "respond" THEN <<>>
                                    ELSE <<[kind |-> "ClientControlResult",
                                            uuid |-> controls[c].uuid,
                                            req |-> controls[c].cmd,
                                            res |-> controls[c].res]>>)

\* one request was answered "No Bot in Channel" and another "Internal Error"
C15_Witness ==
    \E c, d \in DOMAIN controls :
        /\ controls[c].pc = "done" /\ controls[c].res = "No Bot in Channel"
        /\ controls[d].pc = "done" /\ controls[d].res = "Internal Error"

\* the AuthStatus replies, waiting in a detached writer or written
StatusReplies ==
    {f \in responders : f.kind = "AuthStatus"}
        \cup {env.replies[j] : j \in {k \in DOMAIN env.replies : env.replies[k].kind = "AuthStatus"}}

\* the request answered in this step got exactly one reply, an AuthError
OneAuthError ==
    /\ Len(env'.replies) = Len(env.replies) + 1
    /\ SubSeq(env'.replies, 1, Len(env.replies)) = env.replies
    /\ env'.replies[Len(env'.replies)].kind = "AuthError"
    /\ env'.replies[Len(env'.replies)].n = Len(env'.handled)
    /\ responders' = responders

\* C16: a failing Authenticate is answered with exactly one AuthError, starts no
\* watcher and leaves the session without identity.
C16_Original ==
    [][Answers("auth_fail") =>
          /\ OneAuthError
          /\ user' = None
          /\ watchers' = watchers]_vars

\* what auth does on a failure: exactly one AuthError, and the session as it
\* was: the identity is the one held before the request (none on a session that
\* never authenticated), no watcher is started or cancelled and the receive loop
\* goes on. A session without identity runs no watcher, and an AuthStatus is
\* answered true only when an identity is held.
C16_AuthErrorKeepsSession ==
    /\ [][Answers("auth_fail") =>
            /\ OneAuthError
            /\ user' = user
            /\ rx = "recv" /\ rx' = "recv"
            /\ UNCHANGED <<voice_state, vss, pss, watchers, pushers>>]_vars
    /\ [](user = None => vss = None /\ watchers = <<>>)
    /\ [](\A f \in StatusReplies : f.body => user # None)

\* on a session that never authenticated, the Authenticate failed and the
\* AuthStatus request that followed was answered false
C16_Witness ==
    \E i \in HandledAs("auth_fail"), k \in HandledAs("auth_status") :
        /\ i < k
        /\ user = None
        /\ Written(i) # {}
        /\ \E j \in Written(k) : env.replies[j].body = FALSE

\* the pusher p hands a frame to the socket in this step
Wrote(p) ==
    /\ pushers[p].pc # "dead"
    /\ pushers'[p].pc # "dead"
    /\ \/ pushers'[p].stream # pushers[p].stream
       \/ pushers'[p].notesAtFirst # pushers[p].notesAtFirst

\* a watcher that took the place of another has been spawned and has not run
\* yet: every pusher there is was spawned by an old watcher
NewWatcherWaits ==
    /\ vss # None
    /\ vss[1] > 1
    /\ watchers[vss[1]].pc = "start"

\* C17: once an Authenticate has put a new watcher in place of the old one, no
\* pusher that the old watcher spawned sends a frame any more; so none sends
\* while the new watcher has yet to run.
C17_NoStaleFrame ==
    [][\A p \in DOMAIN pushers : Wrote(p) => ~NewWatcherWaits]_vars

\* what auth and the new watcher do: the old watcher is aborted in the step that
\* spawns the new one, which holds the identity; of the pushers the old watcher
\* has spawned by then, only one whose task is running at the abort is left when
\* the new watcher polls
C17_SwapOrder ==
    /\ [][vss' # vss /\ rx = "auth_swap" =>
            /\ user # None
            /\ vss = None \/ ~Live(watchers'[vss[1]])
            /\ watchers'[vss'[1]] = NewWatcher]_vars
    /\ [][\A w \in DOMAIN watchers :
            watchers[w].pc = "start" /\ watchers'[w].pc = "poll" =>
               \A p \in DOMAIN pushers : pushers'[p].pc = "dead" \/ pushers'[p].cancelled
                                             \/ p # pss[1]]_vars

\* the session authenticated twice; a pusher has sent its frames and was
\* cancelled, and the second watcher is polling
C17_Witness ==
    /\ Len(watchers) = MaxAuths
    /\ vss = Some(MaxAuths)
    /\ watchers[MaxAuths].pc \notin {"start", "dead"}
    /\ \E p \in DOMAIN pushers :
          /\ pushers[p].cancelled
          /\ pushers[p].stream # <<>>

\* the sync_respond calls that are inside the socket send
InSend == {i \in DOMAIN senders : senders[i].pc \in {"send", "sending"}}

\* C18: at most one sync_respond call is inside the socket send at any time, and
\* it is the one that holds the Mutex of the socket; on the wire every frame that
\* was begun is finished before the next one begins, whatever number of tasks
\* send at the same time.
C18_OneWriter ==
    /\ Cardinality(InSend) <= 1
    /\ \A i \in InSend : write = Some(i)
    /\ \A k \in DOMAIN wire :
          /\ wire[k][2] = IF k % 2 = 1 THEN "head" ELSE "tail"
          /\ k % 2 = 0 => wire[k][1] = wire[k - 1][1]

\* one frame is on the wire, a second is half written and a third task waits
\* for the Mutex
C18_Witness ==
    /\ Len(wire) = 3
    /\ \E i, j \in DOMAIN senders :
          /\ senders[i].pc = "sending"
          /\ senders[j].pc = "lock"
          /\ senders[i].msg # senders[j].msg

\* the pusher's last state sent is the frame of the snapshot in its watch,
\* generated at some time
UpToDate(p) ==
    \E at \in 0..MaxNow :
        pushers[p].last_state = Some(gen_player_state(pushers[p].cell, at))

\* C19: whenever a subscribed pusher has a published snapshot it has not seen,
\* then under fair scheduling its last state sent becomes the snapshot in the
\* watch, unless the Player is torn down or the pusher is gone by then.
C19_EventuallyLatest ==
    \A p \in 1..MaxPushers :
        (p \in DOMAIN pushers /\ pushers[p].sub /\ pushers[p].unseen)
            ~> (p \in DOMAIN pushers
                   /\ (UpToDate(p) \/ pushers[p].closed \/ ~pushers[p].sub
                          \/ pushers[p].cancelled))

\* the pusher p has read a snapshot that differs from its last state sent, and
\* has not sent a patch for it: Message::generate_patch failed
PatchFailure(p) ==
    /\ pushers[p].pc = "changed" /\ pushers'[p].pc = "changed"
    /\ pushers[p].unseen /\ ~pushers'[p].unseen
    /\ pushers[p].last_state # Some(gen_player_state(pushers[p].cell, now))
    /\ pushers'[p].stream # Append(pushers[p].stream, "Patch")

\* C20: when the patch cannot be generated, the pusher sends the new snapshot as
\* a Full frame: the new snapshot becomes its last state sent and the client's
\* view.
C20_FullOnPatchFailure ==
    [][\A p \in DOMAIN pushers :
          PatchFailure(p) =>
             /\ pushers'[p].stream = Append(pushers[p].stream, "Full")
             /\ pushers'[p].last_state = Some(gen_player_state(pushers[p].cell, now))
             /\ pushers'[p].view = pushers'[p].last_state]_vars

\* the last frame the pusher has sent since it subscribed
LastFrame(p) ==
    IF pushers[p].stream = <<>> THEN "none" ELSE pushers[p].stream[Len(pushers[p].stream)]

\* C21: when the watch of its Player has ended, the pusher sends one Empty frame
\* and is back in the loop that waits for a Player of the same routing target,
\* with no last state; the Empty frame is the last frame of that subscription,
\* and the next frame the pusher sends is the Full frame of a new subscription.
\* Under fair scheduling the Empty frame is sent (FairCloseSpec spawns one
\* pusher, so the pusher that sends it is the one whose watch has ended).
C21_EmptyThenFull ==
    /\ [](\A p \in DOMAIN pushers :
            \A k \in DOMAIN pushers[p].stream :
                pushers[p].stream[k] = "Empty" =>
                    /\ k = Len(pushers[p].stream)
                    /\ pushers[p].pc = "wait_player"
                    /\ ~pushers[p].sub
                    /\ pushers[p].last_state = None)
    /\ [][\A p \in DOMAIN pushers :
            LastFrame(p) = "Empty" /\ pushers'[p].stream # pushers[p].stream =>
                /\ pushers'[p].stream = <<"Full">>
                /\ pushers'[p].target = pushers[p].target
                /\ pushers'[p].last_state = Some(gen_player_state(chan[pushers[p].target].val, now))]_vars
    /\ (\E p \in DOMAIN pushers : pushers[p].sub /\ pushers[p].closed)
          ~> (\E p \in DOMAIN pushers : LastFrame(p) = "Empty")

\* the pusher has sent a Patch and then the Empty frame, and a Player of its
\* routing target exists again
C21_Witness ==
    \E p \in DOMAIN pushers :
        /\ Len(pushers[p].stream) >= 3
        /\ pushers[p].stream[2] = "Patch"
        /\ LastFrame(p) = "Empty"
        /\ chan[pushers[p].target].up

\* the Control task c learns in this step that its command fails
Fails(c) ==
    /\ controls[c].pc \in {"read_vs", "request"}
    /\ controls'[c].pc = "respond"
    /\ controls'[c].res # "Ok"

\* the receive loop and the tasks it can cancel are left as they are
LoopGoesOn ==
    /\ rx' = rx
    /\ UNCHANGED <<vss, pss, watchers, pushers>>

\* C22: a malformed frame, a frame of an unexpected type, a failing Authenticate
\* and a failing Control command leave the receive loop receiving and cancel
\* neither the watcher nor the pusher; the step in which the loop leaves its
\* receiving state answers no request, and only the loop that has left it takes
\* the handles of the watcher and the pusher away.
C22_OnlyTransportEnds ==
    /\ [][(Answers("garbage") \/ Answers("unexpected") \/ Answers("auth_fail"))
            => rx = "recv" /\ LoopGoesOn]_vars
    /\ [][(\E c \in DOMAIN controls : Fails(c)) => LoopGoesOn]_vars
    /\ [][rx = "recv" /\ rx' \notin {"recv", "auth_swap"} =>
            /\ rx' = "td_vss"
            /\ UNCHANGED <<env, user, controls, responders, vss, pss, watchers, pushers>>]_vars
    /\ [][(vss # None /\ vss' = None) => rx = "td_vss"]_vars

\* a failing Authenticate, a frame of an unexpected type and a failed Control
\* command lie behind a loop that still receives, with its watcher and pusher
C22_Witness ==
    /\ rx = "recv"
    /\ HandledAs("auth_fail") # {}
    /\ HandledAs("unexpected") # {}
    /\ \E c \in DOMAIN controls : controls[c].pc = "done" /\ controls[c].res = "PlayerError"
    /\ vss # None /\ Live(watchers[vss[1]])
    /\ pss # None /\ Live(pushers[pss[1]])

\* C23: whenever the snapshot published last has no Current, the provider is not
\* playing a track: it was never started, or the track ended, or the last
\* playback call it took is stop.
C23_AbsentMeansStopped ==
    published.current = None => provider # "playing"

\* a command that ran on a provider call with this outcome: what it leaves
PlayStateSet(call, value) ==
    /\ calls' = <<[op |-> call]>>
    /\ result' \in {"Ok", "Lavalink"}
    /\ result' = "Ok" =>
          /\ player_state' = [player_state EXCEPT !.play_state = value]
          /\ pubs' = 1
          /\ published' = player_state'
    /\ result' = "Lavalink" =>
          /\ player_state' = player_state
          /\ pubs' = 0
          /\ published' = published

\* C24: resume and pause make one provider call; when it succeeds the play state
\* is Play resp. Pause and exactly one snapshot is sent, whatever the play state
\* was; when it fails the error is returned, the state is as before and nothing
\* is sent. dynamic_pause_resume does what pause does when the play state is Play
\* and what resume does when it is Pause.
C24_PauseResume ==
    [][/\ lastCmd'.op = "resume" => PlayStateSet("resume", "Play")
       /\ lastCmd'.op = "pause" => PlayStateSet("pause", "Pause")
       /\ lastCmd'.op = "dynamic_pause_resume" =>
             IF player_state.play_state = "Play" THEN PlayStateSet("pause", "Pause")
             ELSE PlayStateSet("resume", "Play")]_vars

\* a paused Player was resumed by dynamic_pause_resume
C24_Witness ==
    /\ lastCmd.op = "dynamic_pause_resume"
    /\ calls = <<[op |-> "resume"]>>
    /\ result = "Ok"
    /\ pubs = 1
    /\ player_state.play_state = "Play"
    /\ player_state.current # None

\* update has sent one snapshot and has changed nothing but the pair of Current
UpdatePublishes ==
    /\ pubs' = 1
    /\ published' = player_state'
    /\ calls' = <<>>
    /\ result' = "Ok"
    /\ player_state'.playlist = player_state.playlist
    /\ player_state'.history = player_state.history
    /\ player_state'.play_state = player_state.play_state
    /\ player_state'.playback = player_state.playback

\* C25: update always sends a snapshot, in every Player state, and changes
\* nothing but the elapsed/timestamp pair of Current.
C25_Original ==
    [][lastCmd'.op = "update" => UpdatePublishes]_vars

\* C25, amended: with a Current, update sets its pair to the reported position
\* and the time of the call, keeps its track and sends exactly one snapshot, also
\* when the pair is the one Current had; without a Current it sends nothing and
\* changes nothing. It makes no provider call.
C25_UpdatePublishes ==
    [][lastCmd'.op = "update" =>
          IF player_state.current # None
          THEN /\ UpdatePublishes
               /\ player_state'.current =
                      Some([pos |-> lastCmd'.pos, when |-> now,
                            track |-> player_state.current[1].track])
          ELSE /\ player_state' = player_state
               /\ published' = published
               /\ pubs' = 0
               /\ calls' = <<>>
               /\ result' = "Ok"]_vars

\* a position report was published for a Player with a Playlist and a History
C25_Witness ==
    /\ lastCmd = [op |-> "update", pos |-> MaxPos]
    /\ pubs = 1
    /\ player_state.current # None
    /\ player_state.current[1].pos = MaxPos
    /\ player_state.playlist # <<>>
    /\ player_state.history # <<>>

\* C26: jump without a Current fails with NoCurrentSong, calls no provider,
\* sends nothing and changes nothing; with a Current it makes exactly one seek
\* call to the requested position and returns the result of that call, and the
\* Playlist, the History, the paused flag and the loop mode stay as they were.
C26_Jump ==
    [][lastCmd'.op = "jump" =>
          IF player_state.current = None
          THEN /\ result' = "NoCurrentSong"
               /\ calls' = <<>>
               /\ pubs' = 0
               /\ player_state' = player_state
               /\ published' = published
          ELSE /\ calls' = <<[op |-> "jump_to_time", pos |-> lastCmd'.pos]>>
               /\ result' \in {"Ok", "Lavalink"}
               /\ player_state'.playlist = player_state.playlist
               /\ player_state'.history = player_state.history
               /\ player_state'.play_state = player_state.play_state
               /\ player_state'.playback = player_state.playback]_vars

\* a jump was refused for a paused Player that has a History and a Playlist
\* but no Current
C26_Witness ==
    /\ lastCmd.op = "jump"
    /\ result = "NoCurrentSong"
    /\ calls = <<>>
    /\ player_state.current = None
    /\ player_state.history # <<>>
    /\ player_state.playlist # <<>>
    /\ player_state.play_state = "Pause"

\* C27: clearQueue on a non-empty Playlist empties it and sends exactly one
\* snapshot; on an empty Playlist it sends nothing. Current, the History, the
\* paused flag and the loop mode stay as they were and no provider is called.
C27_ClearQueue ==
    [][lastCmd'.op = "clear_queue" =>
          /\ player_state' = [player_state EXCEPT !.playlist = <<>>]
          /\ calls' = <<>>
          /\ result' = "Ok"
          /\ IF player_state.playlist # <<>>
             THEN pubs' = 1 /\ published' = player_state'
             ELSE pubs' = 0 /\ published' = published]_vars

\* a Playlist was cleared under a Current and a History
C27_Witness ==
    /\ lastCmd.op = "clear_queue"
    /\ pubs = 1
    /\ player_state.playlist = <<>>
    /\ player_state.current # None
    /\ player_state.history # <<>>
    /\ published = player_state

\* q without its last item
Front(q) == SubSeq(q, 1, Len(q) - 1)

\* C28: a reshuffle that pushes a track into a full History or Playlist drops
\* the oldest item of the collection, keeps the pushed track where the
\* operation puts it and leaves the collection full. Stated for the pushes of
\* Current by skip(1) and trackEnd, where the Playlist is in queueing order:
\* the oldest item of the History is its last, that of the Playlist its head.
C28_DropOldest ==
    [][(player_state.current # None /\ ~panicked') =>
          LET c == player_state.current[1].track
              pl == player_state.playlist
              hist == player_state.history
          IN  /\ (lastCmd'.op = "skip" /\ lastCmd'.i = 1) =>
                    IF player_state.playback = "AllLoop"
                    THEN is_full(pl) => player_state'.playlist = Tail(pl) \o <<c>>
                    ELSE is_full(hist) => player_state'.history = <<c>> \o Front(hist)
              /\ lastCmd'.op = "track_end" =>
                    CASE player_state.playback = "Normal" ->
                           is_full(hist) => player_state'.history = <<c>> \o Front(hist)
                      [] player_state.playback = "AllLoop" ->
                           is_full(pl) =>
                              /\ player_state'.current # None
                              /\ player_state'.current[1].track = pl[2]
                              /\ player_state'.playlist = Tail(Tail(pl)) \o <<c>>
                      [] OTHER -> TRUE]_vars

\* the History part of C28 alone: the last item of a full History is dropped
C28_HistoryDropsOldest ==
    [][(player_state.current # None /\ ~panicked' /\ is_full(player_state.history)
        /\ \/ lastCmd'.op = "skip" /\ lastCmd'.i = 1 /\ player_state.playback # "AllLoop"
           \/ lastCmd'.op = "track_end" /\ player_state.playback = "Normal") =>
          player_state'.history =
             <<player_state.current[1].track>> \o Front(player_state.history)]_vars

\* C29: a command whose provider call fails with a LavalinkError returns that
\* error after the one call, and the Player state is the one before the
\* command: paused flag, loop mode, Current, History and Playlist.
C29_FailureKeepsState ==
    [][result' = "Lavalink" =>
          /\ lastCmd'.op \in {"skip", "back_skip", "enqueue", "track_end", "resume",
                               "pause", "dynamic_pause_resume", "jump"}
          /\ Len(calls') = 1
          /\ player_state' = player_state]_vars

\* the part of C29 that holds: the failed call is the only call of the command,
\* and resume, pause and jump leave the state and the channel alone
C29_NoRetry ==
    [][result' = "Lavalink" =>
          /\ Len(calls') = 1
          /\ lastCmd'.op \in {"resume", "pause", "dynamic_pause_resume", "jump"} =>
                 player_state' = player_state /\ pubs' = 0]_vars

Reverse(q) == [j \in 1..Len(q) |-> q[Len(q) + 1 - j]]

\* q turned left by k places
Rotated(q, k) ==
    IF q = <<>> THEN q ELSE [j \in 1..Len(q) |-> q[((j - 1 + k) % Len(q)) + 1]]

\* Current as a sequence of at most one track
CurrentTrack == IF player_state.current = None THEN <<>>
                ELSE <<player_state.current[1].track>>

\* the Playlist has room for Current
RoomForCurrent == Len(player_state.playlist) + Len(CurrentTrack) <= MUSIC_QUEUE_LIMIT

\* the tracks skip(n) moves by the claim: Current, then the first
\* min(n-1, |Playlist|) items of the Playlist
Moved(n) == CurrentTrack \o SubSeq(player_state.playlist, 1,
                                   Min(n - 1, Len(player_state.playlist)))

\* the Playlist without those items
Kept(n) == SubSeq(player_state.playlist, Min(n - 1, Len(player_state.playlist)) + 1,
                  Len(player_state.playlist))

\* what skip(n) does in every mode: Current is absent afterwards, one stop was
\* issued, paused flag and loop mode are kept
SkipStops ==
    /\ player_state'.current = None
    /\ calls' = <<[op |-> "stop"]>>
    /\ result' \in {"Ok", "Lavalink"}
    /\ player_state'.play_state = player_state.play_state
    /\ player_state'.playback = player_state.playback

\* skip(n) in Normal and OneLoop mode: the moved tracks are in front of the
\* History, the last moved first; a History that overflows loses its oldest
SkipToHistory(n) ==
    /\ player_state'.playlist = Kept(n)
    /\ player_state'.history =
          SubSeq(Reverse(Moved(n)) \o player_state.history, 1,
                 Min(Len(Moved(n)) + Len(player_state.history), MUSIC_QUEUE_LIMIT))

\* the track_end that follows makes the track t Current
NextCurrent(t) ==
    \A ok \in BOOLEAN :
        LET m == play_next(Start(player_state'), now', ok)
        IN  m.ps.current # None /\ m.ps.current[1].track = t

\* the track_end that follows a skip(n) with n <= |Playlist| plays the former
\* n-th track of the Playlist
NthIsNext(n) ==
    n <= Len(player_state.playlist) => NextCurrent(player_state.playlist[n])

\* C30: skip(n), n >= 1, moves Current (if any) and then the first
\* min(n-1, |Playlist|) Playlist items, in queue order, to the front of the
\* History in Normal and OneLoop mode or to the back of the Playlist in AllLoop
\* mode; Current is absent afterwards and exactly one stop is issued; the
\* track_end that follows makes the former n-th upcoming track Current.
C30_Original ==
    [][(lastCmd'.op = "skip" /\ lastCmd'.i >= 1) =>
          LET n == lastCmd'.i
          IN  /\ SkipStops
              /\ IF player_state.playback = "AllLoop"
                 THEN RoomForCurrent =>
                         /\ player_state'.playlist = Kept(n) \o Moved(n)
                         /\ player_state'.history = player_state.history
                         /\ NthIsNext(n)
                 ELSE SkipToHistory(n) /\ NthIsNext(n)]_vars

\* C30, amended: in AllLoop mode with room for Current in the Playlist, skip(n)
\* appends Current (if any) to the Playlist and then moves the head of that
\* Playlist to its back n-1 times, going round through Current and the tracks
\* already moved when n-1 exceeds the Playlist; the History is kept. The track
\* that follows is the head of the Playlist so turned. In Normal and OneLoop
\* mode the claim holds as stated, and a skip past the end of the Playlist
\* leaves nothing to play.
C30_Skip ==
    [][(lastCmd'.op = "skip" /\ lastCmd'.i >= 1) =>
          LET n == lastCmd'.i
              q0 == player_state.playlist \o CurrentTrack
          IN  /\ SkipStops
              /\ IF player_state.playback = "AllLoop"
                 THEN RoomForCurrent =>
                         /\ player_state'.playlist = Rotated(q0, n - 1)
                         /\ player_state'.history = player_state.history
                         /\ NthIsNext(n)
                         /\ q0 # <<>> => NextCurrent(Rotated(q0, n - 1)[1])
                 ELSE /\ SkipToHistory(n)
                      /\ NthIsNext(n)
                      /\ n > Len(player_state.playlist) =>
                             \A ok \in BOOLEAN :
                                 play_next(Start(player_state'), now', ok).ps.current = None]_vars

\* a skip(2) has moved Current and the head of the Playlist to the History and
\* has left a track to play
C30_Witness ==
    /\ lastCmd = [op |-> "skip", i |-> 2]
    /\ calls = <<[op |-> "stop"]>>
    /\ player_state.current = None
    /\ player_state.playback = "Normal"
    /\ player_state.history = <<"B", "A">>
    /\ player_state.playlist # <<>>

\* the Playlist back_skip(n) builds: the min(n, |History|) tracks taken from the
\* front of the History, the oldest of them first, then Current, then the
\* Playlist as it was; what does not fit falls off the back
BackSkipped(n) ==
    Prefix(Reverse(SubSeq(player_state.history, 1, Min(n, Len(player_state.history))))
              \o CurrentTrack \o player_state.playlist,
           MUSIC_QUEUE_LIMIT)

\* C31: back_skip(n), n >= 1, pushes Current (if any) to the front of the
\* Playlist and then moves min(n, |History|) tracks from the front of the History
\* to the front of the Playlist, so that the oldest moved track is first. With a
\* Current it issues exactly one stop and leaves Current absent; without one it
\* runs play_next, which makes the first Playlist item Current and issues play
\* for it, or issues stop when the Playlist is empty.
C31_BackSkip ==
    [][(lastCmd'.op = "back_skip" /\ lastCmd'.i >= 1) =>
          LET n == lastCmd'.i
              q == BackSkipped(n)
          IN  /\ player_state'.history =
                    SubSeq(player_state.history, Min(n, Len(player_state.history)) + 1,
                           Len(player_state.history))
              /\ player_state'.playback = player_state.playback
              /\ result' \in {"Ok", "Lavalink"}
              /\ IF player_state.current # None
                 THEN /\ player_state'.playlist = q
                      /\ player_state'.current = None
                      /\ player_state'.play_state = player_state.play_state
                      /\ calls' = <<[op |-> "stop"]>>
                 ELSE IF q = <<>>
                 THEN /\ player_state'.playlist = <<>>
                      /\ player_state'.current = None
                      /\ calls' = <<[op |-> "stop"]>>
                 ELSE /\ player_state'.playlist = Tail(q)
                      /\ player_state'.current = Some([pos |-> 0, when |-> now, track |-> q[1]])
                      /\ player_state'.play_state = "Play"
                      /\ calls' = <<[op |-> "play", track |-> q[1]]>>]_vars

\* a back_skip(1) has put a track of the History in front of the former Current
\* and has stopped the provider
C31_Witness ==
    /\ lastCmd = [op |-> "back_skip", i |-> 1]
    /\ calls = <<[op |-> "stop"]>>
    /\ player_state.current = None
    /\ player_state.playlist = <<"B", "A">>
    /\ player_state.history # <<>>

\* play_next has pulled the head of the queue q: it is Current from the start,
\* the rest is the Playlist, the Player plays and play was issued for it
Pulled(q) ==
    /\ player_state'.current = Some([pos |-> 0, when |-> now, track |-> q[1]])
    /\ player_state'.playlist = Tail(q)
    /\ player_state'.play_state = "Play"
    /\ calls' = <<[op |-> "play", track |-> q[1]]>>

FirstSent(q) == pushers[q].pc # "dead" /\ pushers[q].notesAtFirst >= 0

\* C33: once the watcher has cancelled a pusher and the pusher it has spawned
\* for the new routing target has sent its first frame, the cancelled pusher
\* sends no frame any more, also when it was cancelled while it was running.
\* Stated for the sessions with one watcher, whose pushers are all its own.
C33_NoFrameAfterSuccessor ==
    [][Len(watchers) = 1 =>
          \A p \in DOMAIN pushers :
              (pushers[p].cancelled /\ Wrote(p)) =>
                  ~\E q \in DOMAIN pushers : q > p /\ FirstSent(q)]_vars

\* the case of C33 arises: a cancelled pusher is still to be dropped when the
\* pusher of the new routing target has sent its first frame
C33_Witness ==
    /\ Len(watchers) = 1
    /\ \E p, q \in DOMAIN pushers :
          /\ q > p
          /\ pushers[p].cancelled
          /\ pushers[p].pc # "dead"
          /\ pushers[q].target # pushers[p].target
          /\ FirstSent(q)

\* the Control task c has its command run in this step
Dispatched(c) ==
    /\ controls[c].pc = "request"
    /\ controls'[c].pc = "respond"

\* C34: Control(Resume) and Control(Pause) are both sent as PauseResume: a
\* command that succeeds pauses a Player that plays and resumes one that is
\* paused, whichever of the two it is; one that fails leaves the play state.
C34_BothToggle ==
    [][\A c \in DOMAIN controls :
          Dispatched(c) =>
             /\ controls[c].cmd \in {"Resume", "Pause"}
             /\ IF player_state.play_state = "Play"
                THEN /\ calls' = <<[op |-> "pause"]>>
                     /\ player_state'.play_state =
                           IF controls'[c].res = "Ok" THEN "Pause" ELSE "Play"
                ELSE /\ calls' = <<[op |-> "resume"]>>
                     /\ player_state'.play_state =
                           IF controls'[c].res = "Ok" THEN "Play" ELSE "Pause"]_vars

\* a Control(Resume) has paused the Player and a Control(Pause) has resumed it
C34_Witness ==
    /\ Len(controls) = 2
    /\ controls[1].cmd = "Resume" /\ controls[1].pc = "done" /\ controls[1].res = "Ok"
    /\ controls[2].cmd = "Pause" /\ controls[2].pc \in {"respond", "done"}
    /\ controls[2].res = "Ok"
    /\ lastCmd = [op |-> "control", cmd |-> "Pause"]
    /\ calls = <<[op |-> "resume"]>>
    /\ player_state.play_state = "Play"

\* C35: while no Authenticate of the session has succeeded, no watcher and no
\* pusher exists and the routing target is unset; no Control task gets as far
\* as running its command, and every result that is ready or written is the
\* error "No Bot in Channel".
C35_UnauthenticatedIsInert ==
    user = None =>
        /\ voice_state = None
        /\ vss = None /\ watchers = <<>>
        /\ pss = None /\ pushers = <<>>
        /\ \A c \in DOMAIN controls :
              /\ controls[c].pc # "request"
              /\ controls[c].vs = None
              /\ controls[c].pc \in {"respond", "done"} =>
                     controls[c].res = "No Bot in Channel"
              /\ \A k \in DOMAIN controls[c].out :
                     controls[c].out[k].res = "No Bot in Channel"

\* an Authenticate has failed, and a Control request of the session that is
\* still without identity has got its result
C35_Witness ==
    /\ user = None
    /\ HandledAs("auth_fail") # {}
    /\ \E c \in DOMAIN controls :
          /\ controls[c].pc = "done"
          /\ controls[c].out # <<>>
          /\ controls[c].out[1].res = "No Bot in Channel"

\* C36: whenever the pusher slot holds a live pusher, the routing target of the
\* session is the target that pusher is bound to.
C36_SlotMatchesTarget ==
    (pss # None /\ Live(pushers[pss[1]])) =>
        voice_state = Some(pushers[pss[1]].target)

\* the part of C36 that holds: the watcher that is in place writes the routing
\* target before it puts the pusher into the slot, so the two agree while the
\* session has had one watcher only
C36_OneWatcher ==
    (Len(watchers) = 1 /\ pss # None /\ Live(pushers[pss[1]])) =>
        voice_state = Some(pushers[pss[1]].target)

\* the watcher w has asked for the lock of the pusher slot
WaitsForSlot(w) ==
    /\ w \in DOMAIN watchers
    /\ watchers[w].pc \in {"start", "lock"}

\* the task that holds the lock of the pusher slot can run: it goes on to
\* release it, or it was aborted and its guard is dropped with it
HolderRuns ==
    pssLock # None =>
        /\ pssLock[1] \in DOMAIN watchers
        /\ watchers[pssLock[1]].pc = "write_vs"

\* the sync_respond call i has asked for the lock of the socket
WaitsForSocket(i) ==
    /\ i \in DOMAIN senders
    /\ senders[i].pc = "lock"

\* the call that holds the lock of the socket is inside its send
WriterRuns ==
    write # None =>
        /\ write[1] \in DOMAIN senders
        /\ senders[write[1]].pc \in {"send", "sending"}

\* C37: no reachable state is a deadlock on the locks of the session, whoever
\* is aborted and wherever. The lock of the pusher slot is held by a watcher
\* between its lock and its release only, and the lock of the socket by a call
\* that is inside its send, never by a task that is gone. Under fair scheduling,
\* and with socket writes that complete, every watcher that asks for the slot
\* gets it or is dropped as aborted, the teardown, which asks for it last,
\* completes, and every call that asks for the socket gets it or is dropped.
C37_LocksGranted ==
    /\ [](HolderRuns /\ WriterRuns)
    /\ \A w \in 1..MaxAuths : WaitsForSlot(w) ~> ~WaitsForSlot(w)
    /\ (rx = "td_pss") ~> (rx = "done")
    /\ \A i \in 1..2 : WaitsForSocket(i) ~> ~WaitsForSocket(i)

\* a watcher was aborted while it held the lock of the pusher slot, and the
\* watcher that took its place waits for the lock
C37_Witness ==
    /\ pssLock # None
    /\ watchers[pssLock[1]].cancelled
    /\ \E w \in DOMAIN watchers : w # pssLock[1] /\ WaitsForSlot(w)

\* how often the track t is in the sequence q
Occurrences(q, t) == Cardinality({j \in DOMAIN q : q[j] = t})

\* the tracks the Player state ps holds in History, Current and Playlist
\* together, each with the number of times it is held
Held(ps) ==
    [t \in Tracks |->
        Occurrences(ps.history, t) + Occurrences(ps.playlist, t)
           + (IF ps.current # None /\ ps.current[1].track = t THEN 1 ELSE 0)]

\* neither the Playlist nor the History is at capacity
NotAtCapacity == ~is_full(player_state.playlist) /\ ~is_full(player_state.history)

\* the collection the command cmd pushes into has room for every track the
\* command pushes
RoomForPushes(cmd) ==
    CASE cmd.op = "skip" /\ cmd.i >= 1 ->
            IF player_state.playback = "AllLoop" THEN RoomForCurrent
            ELSE Len(player_state.history) + Len(Moved(cmd.i)) <= MUSIC_QUEUE_LIMIT
      [] cmd.op = "back_skip" /\ cmd.i >= 1 ->
            Len(player_state.playlist) + Len(CurrentTrack)
               + Min(cmd.i, Len(player_state.history)) <= MUSIC_QUEUE_LIMIT
      [] cmd.op = "track_end" /\ player_state.current # None ->
            CASE player_state.playback = "Normal" -> ~is_full(player_state.history)
              [] player_state.playback = "AllLoop" -> ~is_full(player_state.playlist)
              [] OTHER -> TRUE
      [] OTHER -> TRUE

\* what a command does to the tracks held: enqueue adds the tracks of the batch
\* that fit, clear_queue takes the tracks of the Playlist, every other command
\* keeps each track as often as it was held
KeepsTracks(cmd) ==
    CASE cmd.op = "enqueue" ->
            LET accepted == Prefix(cmd.tracks,
                                   MUSIC_QUEUE_LIMIT - Len(player_state.playlist))
            IN  Held(player_state') =
                   [t \in Tracks |-> Held(player_state)[t] + Occurrences(accepted, t)]
      [] cmd.op = "clear_queue" ->
            Held(player_state') =
               [t \in Tracks |-> Held(player_state)[t]
                                    - Occurrences(player_state.playlist, t)]
      [] OTHER -> Held(player_state') = Held(player_state)

RoundTripDone ==
    /\ lastCmd.op = "sequence"
    /\ lastCmd.step = 4
    /\ lastCmd.before.playback = "Normal"
    /\ lastCmd.before.current # None
    /\ lastCmd.before.playlist # <<>>
    /\ ~is_full(lastCmd.before.playlist)
    /\ ~is_full(lastCmd.before.history)

\* C39: in Normal mode with Current present, a Playlist that is not empty and
\* neither collection at capacity, the sequence skip(1), track_end,
\* back_skip(1), track_end restores Current (the same track), Playlist and
\* History to the values they had before the sequence.
C39_RoundTrip ==
    RoundTripDone =>
        /\ player_state.current # None
        /\ player_state.current[1].track = lastCmd.before.current[1].track
        /\ player_state.playlist = lastCmd.before.playlist
        /\ player_state.history = lastCmd.before.history

\* the sequence has run from a state with a track in the History and another
\* track as Current
C39_Witness ==
    /\ RoundTripDone
    /\ lastCmd.before.history # <<>>
    /\ lastCmd.before.current[1].track # Head(lastCmd.before.playlist)
    /\ player_state.current # None
    /\ player_state.current[1].track = lastCmd.before.current[1].track
====
